---- MODULE Spec2Model ----
(***************************************************************************)
(* Verification and reconciliation of the (company, tool, evidence-URL)    *)
(* dataset: the structural URL classifiers, the HTTP verifiers, the worker *)
(* pools, the merges into companies.json and the file writes of the        *)
(* scraper scripts.                                                        *)
(***************************************************************************)
EXTENDS Integers, Sequences, FiniteSets, TLC

\* ------------------------------------------------------------------ bounds
\* The wall clock runs from 1 to MaxClock (timestamps of earlier runs are 0).
MaxClock == 2
\* --attempts of the retry run (argparse input; the script's default is 3).
Attempts == 2
\* --target of research-enrich (argparse input; the script's default is 1000).
Target == 3

\* ------------------------------------------------------------ Python values
\* Optional[int] None (CheckResult.status_code, tool["http_status"]).
NoStatus == -1
\* Optional[str] None of static_reject_reason: "no rejection".
NoReason == ""

RETRYABLE_STATUSES == {403, 429}

\* ------------------------------------------------------------ URL universe
UGood == "https://slack.com/customer-stories/acme"
UBeta == "https://zoom.com/customers/beta"
URoot == "https://slack.com/customer-stories/"
UForum == "https://community.slack.com/t/acme"
UFtp == "ftp://slack.com/acme.pdf"
UBlank == " "
\* A second story page of the vendor sitemap (build_researched_1000_sitemap).
UStory == "https://slack.com/customer-stories/beta"

\* URLs that meet several rules of the structural classifiers at once.
UJira == "https://community.jira.com/story"
UTeams == "https://microsoftteams.com/customers/acme"
UTeamsRoot == "https://microsoftteams.com/customers/"
UMedium == "https://slack.com/customer-stories/medium.com"
UBare == "slack.com/customers/acme"

URLs == {UGood, UBeta, URoot, UForum, UFtp}

\* str.strip() on the URL strings of the universe.
strip(u) == IF u = UBlank THEN "" ELSE u

\* requests.utils.urlparse: scheme, hostname (its labels), path (its segments,
\* lowered as re.IGNORECASE reads them) and whether the path ends in "/".
urlparse(u) ==
    CASE u = UGood -> [scheme |-> "https", hostname |-> <<"slack", "com">>,
                       path |-> <<"customer-stories", "acme">>, slash |-> FALSE]
      [] u = UBeta -> [scheme |-> "https", hostname |-> <<"zoom", "com">>,
                       path |-> <<"customers", "beta">>, slash |-> FALSE]
      [] u = URoot -> [scheme |-> "https", hostname |-> <<"slack", "com">>,
                       path |-> <<"customer-stories">>, slash |-> TRUE]
      [] u = UStory -> [scheme |-> "https", hostname |-> <<"slack", "com">>,
                        path |-> <<"customer-stories", "beta">>, slash |-> FALSE]
      [] u = UForum -> [scheme |-> "https", hostname |-> <<"community", "slack", "com">>,
                        path |-> <<"t", "acme">>, slash |-> FALSE]
      [] u = UFtp -> [scheme |-> "ftp", hostname |-> <<"slack", "com">>,
                      path |-> <<"acme.pdf">>, slash |-> FALSE]
      [] u = UJira -> [scheme |-> "https", hostname |-> <<"community", "jira", "com">>,
                       path |-> <<"story">>, slash |-> FALSE]
      [] u = UTeams -> [scheme |-> "https", hostname |-> <<"microsoftteams", "com">>,
                        path |-> <<"customers", "acme">>, slash |-> FALSE]
      [] u = UTeamsRoot -> [scheme |-> "https", hostname |-> <<"microsoftteams", "com">>,
                            path |-> <<"customers">>, slash |-> TRUE]
      [] u = UMedium -> [scheme |-> "https", hostname |-> <<"slack", "com">>,
                         path |-> <<"customer-stories", "medium.com">>, slash |-> FALSE]
      [] u = UBare -> [scheme |-> "", hostname |-> <<>>,
                       path |-> <<"slack.com", "customers", "acme">>, slash |-> FALSE]
      [] OTHER -> [scheme |-> "", hostname |-> <<>>, path |-> <<>>, slash |-> FALSE]

Last(s) == s[Len(s)]

\* Suffix test on sequences: s ends with t.
EndsWithSeq(s, t) ==
    /\ Len(s) >= Len(t)
    /\ \A i \in 1..Len(t) : s[Len(s) - Len(t) + i] = t[i]

\* ROOT_PATTERNS searched in the path: /customers/?$, /customer-stories/?$,
\* /customers/search, /en/customer-stories/?$, /intl/[^/]+/customer-stories/?$,
\* /case-studies/?$, /success-stories\.html$.
MatchesRootPattern(p) ==
    \/ /\ Len(p.path) >= 1
       /\ Last(p.path) \in {"customers", "customer-stories", "case-studies"}
    \/ \E i \in 1..(Len(p.path) - 1) :
          p.path[i] = "customers" /\ p.path[i + 1] = "search"
    \/ /\ Len(p.path) >= 1
       /\ Last(p.path) = "success-stories.html"
       /\ ~p.slash

\* BAD_HOST_PATTERNS searched in the hostname.
MatchesBadHost(p) ==
    \/ EndsWithSeq(p.hostname, <<"monday", "com", "com">>)
    \/ EndsWithSeq(p.hostname, <<"microsoftteams", "com">>)
    \/ EndsWithSeq(p.hostname, <<"jira", "com">>)
    \/ EndsWithSeq(p.hostname, <<"confluence", "com">>)

\* any(token in lowered for token in BAD_DOMAINS): the tokens are looked for in
\* the whole lowered URL text, here its hostname labels and its path segments.
ContainsBadDomainToken(p) ==
    \/ \E i \in 1..(Len(p.hostname) - 1) :
          p.hostname[i] \in {"community", "support", "help", "forum"}
    \/ \E i \in 1..(Len(p.hostname) - 1) :
          /\ p.hostname[i] \in {"reddit", "quora", "medium", "linkedin"}
          /\ p.hostname[i + 1] = "com"
    \/ EndsWithSeq(p.hostname, <<"news", "ycombinator", "com">>)
    \/ \E i \in 1..Len(p.path) :
          p.path[i] \in {"reddit.com", "quora.com", "medium.com", "linkedin.com",
                         "news.ycombinator.com"}

\* clean_urls.static_reject_reason
static_reject_reason(url) ==
    IF url = "" THEN "empty_url"
    ELSE IF urlparse(url).scheme \notin {"http", "https"} THEN "invalid_url_format"
    ELSE IF ContainsBadDomainToken(urlparse(url)) THEN "blocked_domain"
    ELSE IF MatchesBadHost(urlparse(url)) THEN "invalid_host_pattern"
    ELSE IF MatchesRootPattern(urlparse(url)) THEN "root_or_listing_page"
    ELSE NoReason

\* retry_pending_urls.static_reject_reason
retry_static_reject_reason(url) ==
    IF url = "" THEN "empty_url"
    ELSE IF urlparse(url).scheme \notin {"http", "https"} THEN "invalid_url_format"
    ELSE IF MatchesRootPattern(urlparse(url)) THEN "root_or_listing_page"
    ELSE NoReason

\* research_enrich_to_1000.static_reject
static_reject(url) ==
    IF url = "" THEN "empty_url"
    ELSE IF urlparse(url).scheme \notin {"http", "https"} THEN "invalid_scheme"
    ELSE IF MatchesBadHost(urlparse(url)) THEN "invalid_host_pattern"
    ELSE IF MatchesRootPattern(urlparse(url)) THEN "root_or_listing_page"
    ELSE NoReason

\* fill_to_1000.reject
reject(url) ==
    \/ urlparse(url).scheme \notin {"http", "https"}
    \/ MatchesBadHost(urlparse(url))
    \/ MatchesRootPattern(urlparse(url))

\* ------------------------------------------------------------ the network
Statuses == {200, 404, 429}

TitledBody == "<title>Acme Case Study</title>"

\* extract_title on the bodies of the universe.
extract_title(text) == IF text = TitledBody THEN "Acme Case Study" ELSE ""

\* What one request can come back with: a requests.RequestException
\* ("request"), any other exception ("other"), or a response whose r.url is
\* the requested URL or, after a redirect, the listing page.
Finals(u) == {u, URoot}

HeadResponses(u) ==
    {[exc |-> e, status |-> NoStatus, url |-> "", html |-> FALSE, body |-> ""] :
        e \in {"request", "other"}}
    \cup {[exc |-> "none", status |-> s, url |-> f, html |-> FALSE, body |-> ""] :
        s \in Statuses, f \in Finals(u)}

GetResponses(u) ==
    HeadResponses(u)
    \cup {[exc |-> "none", status |-> s, url |-> f, html |-> TRUE, body |-> TitledBody] :
        s \in Statuses, f \in Finals(u)}

\* f"http_{status}"
http_reason(status) ==
    CASE status = 200 -> "http_200"
      [] status = 403 -> "http_403"
      [] status = 404 -> "http_404"
      [] status = 429 -> "http_429"
      [] OTHER -> "http_None"

\* ------------------------------------------------------------ the verifiers
\* Every verifier is a function of the URL and of what the HEAD and the GET
\* request come back with; `calls` lists the requests it issued in order and
\* `raised` says that an exception left the function.
Outcome(ok, status, final, reason, retryable, title, calls) ==
    [ok |-> ok, status_code |-> status, final_url |-> final, reason |-> reason,
     retryable |-> retryable, evidence_title |-> title, raised |-> FALSE,
     valid |-> TRUE, calls |-> calls]

Raise(calls) ==
    [ok |-> FALSE, status_code |-> NoStatus, final_url |-> "", reason |-> "",
     retryable |-> FALSE, evidence_title |-> "", raised |-> TRUE,
     valid |-> TRUE, calls |-> calls]

\* A check_http that returns the title of the page for every verified URL.
check_http_titled(url, h, g) ==
    IF g.exc = "none" /\ g.status < 400 /\ static_reject_reason(g.url) = NoReason
    THEN Outcome(TRUE, g.status, g.url, "ok", FALSE,
                 IF g.html THEN extract_title(g.body) ELSE "", <<"HEAD", "GET">>)
    ELSE Outcome(FALSE, NoStatus, "", "network_error", FALSE, "", <<"HEAD", "GET">>)

\* clean_urls.check_http
check_http(url, h, g) ==
    IF h.exc = "none" /\ h.status < 400 /\ static_reject_reason(h.url) = NoReason
    THEN Outcome(TRUE, h.status, h.url, "ok", FALSE, "", <<"HEAD">>)
    ELSE IF h.exc = "none" /\ h.status \in RETRYABLE_STATUSES
    THEN Outcome(FALSE, h.status, h.url, http_reason(h.status), TRUE, "", <<"HEAD">>)
    ELSE IF g.exc = "request"
    THEN Outcome(FALSE, NoStatus, "", "network_error", FALSE, "", <<"HEAD", "GET">>)
    ELSE IF g.exc = "other"
    THEN Raise(<<"HEAD", "GET">>)
    ELSE LET rej == static_reject_reason(g.url)
             title == IF g.html THEN extract_title(g.body) ELSE ""
         IN  IF g.status < 400 /\ rej = NoReason
             THEN Outcome(TRUE, g.status, g.url, "ok", FALSE, title, <<"HEAD", "GET">>)
             ELSE IF g.status \in RETRYABLE_STATUSES
             THEN Outcome(FALSE, g.status, g.url, http_reason(g.status), TRUE, "",
                          <<"HEAD", "GET">>)
             ELSE IF rej # NoReason
             THEN Outcome(FALSE, g.status, g.url, rej, FALSE, "", <<"HEAD", "GET">>)
             ELSE Outcome(FALSE, g.status, g.url, http_reason(g.status), FALSE, "",
                          <<"HEAD", "GET">>)

\* retry_pending_urls.http_check_once: (ok, status, final_url, evidence_title)
http_check_once(url, h, g) ==
    IF h.exc = "other"
    THEN Raise(<<"HEAD">>)
    ELSE IF h.exc = "none" /\ h.status < 400 /\ retry_static_reject_reason(h.url) = NoReason
    THEN Outcome(TRUE, h.status, h.url, "", FALSE, "", <<"HEAD">>)
    ELSE IF g.exc = "request"
    THEN Outcome(FALSE, NoStatus, "", "", FALSE, "", <<"HEAD", "GET">>)
    ELSE IF g.exc = "other"
    THEN Raise(<<"HEAD", "GET">>)
    ELSE IF g.status < 400 /\ retry_static_reject_reason(g.url) = NoReason
    THEN Outcome(TRUE, g.status, g.url, "", FALSE,
                 IF g.html THEN extract_title(g.body) ELSE "", <<"HEAD", "GET">>)
    ELSE Outcome(FALSE, g.status, g.url, "", FALSE, "", <<"HEAD", "GET">>)

\* research_enrich_to_1000.check_url
check_url(url, h, g) ==
    IF static_reject(url) # NoReason
    THEN Outcome(FALSE, NoStatus, "", static_reject(url), FALSE, "", <<>>)
    ELSE IF h.exc = "other"
    THEN Raise(<<"HEAD">>)
    ELSE IF h.exc = "none" /\ h.status < 400 /\ static_reject(h.url) = NoReason
    THEN Outcome(TRUE, h.status, h.url, "ok", FALSE, "", <<"HEAD">>)
    ELSE IF g.exc = "request"
    THEN Outcome(FALSE, NoStatus, "", "network_error", FALSE, "", <<"HEAD", "GET">>)
    ELSE IF g.exc = "other"
    THEN Raise(<<"HEAD", "GET">>)
    ELSE IF g.status >= 400
    THEN Outcome(FALSE, g.status, g.url, http_reason(g.status), FALSE, "", <<"HEAD", "GET">>)
    ELSE IF static_reject(g.url) # NoReason
    THEN Outcome(FALSE, g.status, g.url, static_reject(g.url), FALSE, "", <<"HEAD", "GET">>)
    ELSE Outcome(TRUE, g.status, g.url, "ok", FALSE,
                 IF g.html THEN extract_title(g.body) ELSE "", <<"HEAD", "GET">>)

\* fill_to_1000.check: (ok, status, final_url)
check(url, h, g) ==
    IF url = "" \/ reject(url)
    THEN Outcome(FALSE, NoStatus, "", "", FALSE, "", <<>>)
    ELSE IF h.exc = "none" /\ h.status < 400 /\ ~reject(h.url)
    THEN Outcome(TRUE, h.status, h.url, "", FALSE, "", <<"HEAD">>)
    ELSE IF g.exc # "none"
    THEN Outcome(FALSE, NoStatus, "", "", FALSE, "", <<"HEAD", "GET">>)
    ELSE IF g.status < 400 /\ ~reject(g.url)
    THEN Outcome(TRUE, g.status, g.url, "", FALSE, "", <<"HEAD", "GET">>)
    ELSE Outcome(FALSE, g.status, g.url, "", FALSE, "", <<"HEAD", "GET">>)

\* verify_urls.check_url_exists: the GET is tried only when the HEAD raised.
check_url_exists(url, h, g) ==
    IF h.exc = "none"
    THEN Outcome(h.status < 400, h.status, h.url, "", FALSE, "", <<"HEAD">>)
    ELSE IF g.exc = "none"
    THEN Outcome(g.status < 400, g.status, g.url, "", FALSE, "", <<"HEAD", "GET">>)
    ELSE Outcome(FALSE, NoStatus, "", "", FALSE, "", <<"HEAD", "GET">>)

\* verify_urls_v3.check_http_status
check_http_status(url, h, g) ==
    IF h.exc = "none" /\ h.status < 400
    THEN Outcome(TRUE, h.status, h.url, "", FALSE, "", <<"HEAD">>)
    ELSE IF g.exc = "none"
    THEN Outcome(g.status < 400, g.status, g.url, "", FALSE, "", <<"HEAD", "GET">>)
    ELSE Outcome(FALSE, NoStatus, "", "", FALSE, "", <<"HEAD", "GET">>)

\* build_researched_1000_sitemap.verify_url: a HEAD below 400 is taken as it
\* is; only requests.RequestException is caught around either request.
verify_url(url, h, g) ==
    IF h.exc = "other"
    THEN Raise(<<"HEAD">>)
    ELSE IF h.exc = "none" /\ h.status < 400
    THEN Outcome(TRUE, h.status, h.url, "", FALSE, "", <<"HEAD">>)
    ELSE IF g.exc = "request"
    THEN Outcome(FALSE, NoStatus, "", "", FALSE, "", <<"HEAD", "GET">>)
    ELSE IF g.exc = "other"
    THEN Raise(<<"HEAD", "GET">>)
    ELSE IF g.status >= 400
    THEN Outcome(FALSE, g.status, g.url, "", FALSE, "", <<"HEAD", "GET">>)
    ELSE Outcome(TRUE, g.status, g.url, IF g.html THEN extract_title(g.body) ELSE "",
                 FALSE, "", <<"HEAD", "GET">>)

\* What one run of a verifier on a URL can come to, over everything the two
\* requests can come back with.
Outcomes(verifier(_, _, _), url) ==
    {verifier(url, h, g) : h \in HeadResponses(url), g \in GetResponses(url)}

\* ------------------------------------------------------------ data model
\* One tool entry of a company (a dict of companies.json).
Tool(name, source_url, verified) ==
    [name |-> name, source_url |-> source_url, final_url |-> "",
     source_type |-> "vendor_case_study", verified |-> verified,
     http_status |-> NoStatus, checked_at |-> 0, evidence_title |-> ""]

Company(name, tools) == [company |-> name, tools |-> tools, updated_at |-> 0]

\* A quarantine record or a retry-queue item.
Item(company, tool, source_url, final_url, http_status, reason, at) ==
    [company |-> company, tool |-> tool, source_url |-> source_url,
     final_url |-> final_url, http_status |-> http_status, reason |-> reason,
     checked_at |-> at]

NoItem == Item("", "", "", "", NoStatus, "", 0)

\* str.lower() / str.upper() on the names of the universe.
lower(name) ==
    CASE name = "Acme" -> "acme"
      [] name = "Beta" -> "beta"
      [] name = "Gamma" -> "gamma"
      [] name = "Slack" -> "slack"
      [] name = "Zoom" -> "zoom"
      [] name = "Notion" -> "notion"
      [] OTHER -> name

upper(name) ==
    CASE lower(name) = "slack" -> "SLACK"
      [] lower(name) = "zoom" -> "ZOOM"
      [] lower(name) = "notion" -> "NOTION"
      [] lower(name) = "acme" -> "ACME"
      [] lower(name) = "beta" -> "BETA"
      [] lower(name) = "gamma" -> "GAMMA"
      [] OTHER -> name

\* Python's order on the company names of the universe (code points).
NameRank(name) ==
    CASE name = "" -> 0
      [] name = "Acme" -> 1
      [] name = "Beta" -> 2
      [] name = "Gamma" -> 3
      [] name = "acme" -> 4
      [] OTHER -> 5

RECURSIVE FoldLeft(_, _, _)
FoldLeft(Op(_, _), acc, s) ==
    IF s = <<>> THEN acc ELSE FoldLeft(Op, Op(acc, Head(s)), Tail(s))

Range(s) == {s[i] : i \in 1..Len(s)}

\* d[key] = value on a dict kept as the sequence of its (key, value) pairs in
\* insertion order: a key already present keeps its place.
DictPut(d, key, value) ==
    IF \E i \in 1..Len(d) : d[i].key = key
    THEN [i \in 1..Len(d) |-> IF d[i].key = key THEN [key |-> key, value |-> value] ELSE d[i]]
    ELSE Append(d, [key |-> key, value |-> value])

DictHas(d, key) == \E i \in 1..Len(d) : d[i].key = key

DictGet(d, key) == d[CHOOSE i \in 1..Len(d) : d[i].key = key].value

\* list.sort(key=company name): stable insertion into ascending order.
SortedInsert(s, c) ==
    LET k == Cardinality({i \in 1..Len(s) : NameRank(s[i].company) <= NameRank(c.company)})
    IN  SubSeq(s, 1, k) \o <<c>> \o SubSeq(s, k + 1, Len(s))

sorted_by_company(s) == FoldLeft(SortedInsert, <<>>, s)

\* The counters of a report before anything was counted.
NoReport == [cleaned_entries |-> 0, quarantined_entries |-> 0, retry_entries |-> 0]

\* ------------------------- build_researched_1000_sitemap.crawl_candidates
\* The sitemaps and the pages of one vendor site.
SRoot == "https://slack.com/sitemap.xml"
SChild == "https://slack.com/sitemap-stories.xml"

Sitemaps == {SRoot, SChild}

Pages == {UGood, UStory, URoot}

\* source["regex"] of the Slack source (line 25): a story page, not the
\* listing page.
patt_search(u) == u \in {UGood, UStory}

\* Lines 84-88: the locals before the loop; fetched and popped record the
\* sitemaps handed to fetch_xml and taken from the queue, in order.
NewCrawl(source, cap) ==
    [source |-> source, cap |-> cap, queue |-> <<source.sitemap>>, seen_maps |-> {},
     out |-> <<>>, seen_urls |-> {}, fetched |-> <<>>, popped |-> <<>>]

NoCrawl ==
    [NewCrawl([tool |-> "", sitemap |-> "", max_sitemaps |-> 0], 0) EXCEPT !.queue = <<>>]

\* A scan that takes a URL it has already taken.
RECURSIVE crawl_urls_again(_, _)
crawl_urls_again(c, urls) ==
    IF urls = <<>> THEN c
    ELSE IF ~patt_search(Head(urls)) THEN crawl_urls_again(c, Tail(urls))
    ELSE LET c1 == [c EXCEPT !.seen_urls = @ \cup {Head(urls)},
                             !.out = Append(@, [tool |-> c.source.tool,
                                                url |-> Head(urls)])]
         IN  IF Len(c1.out) >= c.cap THEN c1 ELSE crawl_urls_again(c1, Tail(urls))

\* Lines 101-108: the URLs of one sitemap.
RECURSIVE crawl_urls(_, _)
crawl_urls(c, urls) ==
    IF urls = <<>> THEN c
    ELSE IF Head(urls) \in c.seen_urls THEN crawl_urls(c, Tail(urls))
    ELSE IF ~patt_search(Head(urls)) THEN crawl_urls(c, Tail(urls))
    ELSE LET c1 == [c EXCEPT !.seen_urls = @ \cup {Head(urls)},
                             !.out = Append(@, [tool |-> c.source.tool,
                                                url |-> Head(urls)])]
         IN  IF Len(c1.out) >= c.cap THEN c1 ELSE crawl_urls(c1, Tail(urls))

\* Line 90: the condition of the while loop.
crawl_goes_on(c) ==
    /\ c.queue # <<>>
    /\ Cardinality(c.seen_maps) < c.source.max_sitemaps
    /\ Len(c.out) < c.cap

\* report[counter] += 1
Count(rp, counter) ==
    [rp EXCEPT !.cleaned_entries = IF counter = "cleaned_entries" THEN @ + 1 ELSE @,
               !.quarantined_entries = IF counter = "quarantined_entries" THEN @ + 1 ELSE @,
               !.retry_entries = IF counter = "retry_entries" THEN @ + 1 ELSE @]

\* ------------------------------------------------------------------ state
VARIABLES
    script,          \* the script this run executes
    pc,              \* its position
    now,             \* the wall clock at its last reading
    checked_at,      \* now_iso() taken at the start of the run
    dataFile,        \* data/companies.json
    backupFiles,     \* the backup files of the data directory, by path
    retryFile,       \* data/retry_queue.json
    quarantineFile,  \* data/quarantine_404.json
    outFiles,        \* the other output files of the data directory, by path
    data,            \* the dataset in memory
    tasks,           \* what was submitted to the worker pool, in order
    futures,         \* the state of each submitted task
    results,         \* the outcomes collected from the pool, in arrival order
    quarantine,      \* quarantine (clean_data)
    retry_queue,     \* retry_queue (clean_data), remaining (retry run)
    resolved,        \* resolved (retry run)
    netlog,          \* the (url, method) requests issued in this run
    writes,          \* the files written in this run, in order
    startData,       \* the content of data/companies.json when the run began
    todo,            \* what a sequential loop of the script has still to visit
    direct,          \* the URLs the script itself handed to a verifier, in order
    report,          \* the counters of the run's report
    crawl            \* the locals of one crawl_candidates call

disk == <<dataFile, backupFiles, retryFile, quarantineFile, outFiles>>
pool == <<tasks, futures, results>>
mem == <<data, quarantine, retry_queue, resolved>>
audit == <<netlog, writes, startData>>
loop == <<todo, direct>>
vars == <<script, pc, now, checked_at, disk, pool, mem, audit, loop, report, crawl>>

BackupPath(name, ts) == [name |-> name, ts |-> ts]

WriteBackup(files, path, content) ==
    [p \in DOMAIN files \cup {path} |-> IF p = path THEN content ELSE files[p]]

Task(url, item) == [url |-> url, item |-> item]

\* What the server had for the URL in one check: "titled" when it answers 200
\* to the HEAD and to the GET, without redirect, the GET with an HTML page whose
\* title is not empty; "get_titled" when only the GET answers so.
Served(url, h, g) ==
    IF /\ g.exc = "none" /\ g.status = 200 /\ g.url = url
       /\ g.html /\ extract_title(g.body) # ""
    THEN IF h.exc = "none" /\ h.status = 200 /\ h.url = url
         THEN "titled" ELSE "get_titled"
    ELSE "other"

Pending ==
    [st |-> "pending", calls |-> 0, sleeps |-> <<>>, out |-> Raise(<<>>), served |-> "other",
     last |-> <<NoStatus, "">>]

\* What one verifier run adds to the log of the checks: the requests it
\* issued for the URL; when it ended on a status below 400, that answer for the
\* URL asked and for the final URL; when it returned ok, the URL asked as
\* verified and the final URL as the final URL of a verified check.
NetCalls(url, out) ==
    {<<url, out.calls[i]>> : i \in 1..Len(out.calls)}
    \cup (IF out.status_code # NoStatus /\ out.status_code < 400
          THEN {<<url, "status<400">>, <<out.final_url, "status<400">>}
          ELSE {})
    \cup (IF out.ok
          THEN {<<url, "verified">>, <<out.final_url, "verified_final">>}
          ELSE {})

\* --------------------------------------------------- clean_urls.clean_data
\* An index that also holds the entries without a URL.
RECURSIVE ToolRefsAll(_, _, _)
ToolRefsAll(d, ci, ti) ==
    IF ci > Len(d) THEN <<>>
    ELSE IF ti > Len(d[ci].tools) THEN ToolRefsAll(d, ci + 1, 1)
    ELSE <<[c |-> ci, t |-> ti, url |-> strip(d[ci].tools[ti].source_url)]>>
             \o ToolRefsAll(d, ci, ti + 1)

\* build_index: the (company, tool) references with a non-empty stripped
\* source_url, in iteration order.
RECURSIVE ToolRefs(_, _, _)
ToolRefs(d, ci, ti) ==
    IF ci > Len(d) THEN <<>>
    ELSE IF ti > Len(d[ci].tools) THEN ToolRefs(d, ci + 1, 1)
    ELSE (IF strip(d[ci].tools[ti].source_url) # ""
          THEN <<[c |-> ci, t |-> ti, url |-> strip(d[ci].tools[ti].source_url)]>>
          ELSE <<>>) \o ToolRefs(d, ci, ti + 1)

build_index(d) == ToolRefs(d, 1, 1)

url_index(d, url) == SelectSeq(build_index(d), LAMBDA r : r.url = url)

AppendNew(s, e) == IF e \in Range(s) THEN s ELSE Append(s, e)

unique_urls(d) ==
    FoldLeft(AppendNew, <<>>, [i \in 1..Len(build_index(d)) |-> build_index(d)[i].url])

\* A static rejection that forgets to count the quarantined entry.
StaticRejectRefUncounted(acc, ref, reason, at) ==
    LET tool == acc.data[ref.c].tools[ref.t]
    IN  [acc EXCEPT
           !.quarantine = Append(@, Item(acc.data[ref.c].company, tool.name, ref.url,
                                        "", NoStatus, reason, at)),
           !.data[ref.c].tools[ref.t] =
               [tool EXCEPT !.source_url = "", !.verified = FALSE,
                            !.source_type = "unverified", !.http_status = NoStatus,
                            !.checked_at = at, !.final_url = "",
                            !.evidence_title = ""]]

\* Lines 212-234: one reference of a statically rejected URL.
StaticRejectRef(acc, ref, reason, at) ==
    LET tool == acc.data[ref.c].tools[ref.t]
    IN  [acc EXCEPT
           !.report = Count(@, "quarantined_entries"),
           !.quarantine = Append(@, Item(acc.data[ref.c].company, tool.name, ref.url,
                                        "", NoStatus, reason, at)),
           !.data[ref.c].tools[ref.t] =
               [tool EXCEPT !.source_url = "", !.verified = FALSE,
                            !.source_type = "unverified", !.http_status = NoStatus,
                            !.checked_at = at, !.final_url = "",
                            !.evidence_title = ""]]

\* Lines 207-236: static filtering first.
StaticFilterUrl(acc, url, index, at) ==
    IF static_reject_reason(url) # NoReason
    THEN FoldLeft(LAMBDA a, ref : StaticRejectRef(a, ref, static_reject_reason(url), at),
                  acc, SelectSeq(index, LAMBDA r : r.url = url))
    ELSE [acc EXCEPT !.to_check = Append(@, url)]

StaticFilter(d, at) ==
    FoldLeft(LAMBDA a, url : StaticFilterUrl(a, url, build_index(d), at),
             [data |-> d, quarantine |-> <<>>, to_check |-> <<>>, report |-> NoReport],
             unique_urls(d))

\* A merge that has no retry path: every result that is not ok is quarantined.
CleanMergeRefStrict(acc, ref, result, at) ==
    LET tool == acc.data[ref.c].tools[ref.t]
        seen == [tool EXCEPT !.http_status = result.status_code, !.checked_at = at,
                             !.final_url = result.final_url,
                             !.evidence_title = result.evidence_title]
        rec == Item(acc.data[ref.c].company, tool.name, ref.url, result.final_url,
                    result.status_code, result.reason, at)
    IN  IF result.ok
        THEN [acc EXCEPT !.data[ref.c].tools[ref.t] =
                  [seen EXCEPT !.source_url = IF result.final_url # ""
                                              THEN result.final_url ELSE ref.url,
                               !.verified = TRUE],
                         !.report = Count(@, "cleaned_entries")]
        ELSE [acc EXCEPT !.data[ref.c].tools[ref.t] =
                             [seen EXCEPT !.verified = FALSE, !.source_url = "",
                                          !.source_type = "unverified"],
                         !.quarantine = Append(@, rec),
                         !.report = Count(@, "quarantined_entries")]

\* Lines 254-299: one reference of a checked URL.
CleanMergeRef(acc, ref, result, at) ==
    LET tool == acc.data[ref.c].tools[ref.t]
        seen == [tool EXCEPT !.http_status = result.status_code, !.checked_at = at,
                             !.final_url = result.final_url,
                             !.evidence_title = result.evidence_title]
        rec == Item(acc.data[ref.c].company, tool.name, ref.url, result.final_url,
                    result.status_code, result.reason, at)
    IN  IF result.ok
        THEN [acc EXCEPT !.data[ref.c].tools[ref.t] =
                  [seen EXCEPT !.source_url = IF result.final_url # ""
                                              THEN result.final_url ELSE ref.url,
                               !.verified = TRUE],
                         !.report = Count(@, "cleaned_entries")]
        ELSE IF result.retryable
        THEN [acc EXCEPT !.data[ref.c].tools[ref.t] = [seen EXCEPT !.verified = FALSE],
                         !.retry_queue = Append(@, rec),
                         !.report = Count(@, "retry_entries")]
        ELSE [acc EXCEPT !.data[ref.c].tools[ref.t] =
                             [seen EXCEPT !.verified = FALSE, !.source_url = "",
                                          !.source_type = "unverified"],
                         !.quarantine = Append(@, rec),
                         !.report = Count(@, "quarantined_entries")]

\* Lines 252-299: the merge of the collected results, in their arrival order.
\* The index was built from the dataset as loaded (url_index is not rebuilt).
CleanMergeAll(d, index, q, rp, res, at) ==
    FoldLeft(LAMBDA a, kv :
                 FoldLeft(LAMBDA b, ref : CleanMergeRef(b, ref, kv.value, at),
                          a, SelectSeq(index, LAMBDA r : r.url = kv.key)),
             [data |-> d, quarantine |-> q, retry_queue |-> <<>>, report |-> rp],
             res)

\* Lines 185-236: load, index, static filtering.
CleanLoad ==
    /\ script = "clean" /\ pc = "start"
    /\ \E t \in now..MaxClock :
          /\ now' = t
          /\ checked_at' = t
          /\ LET f == StaticFilter(dataFile, t)
             IN  /\ data' = f.data
                 /\ quarantine' = f.quarantine
                 /\ report' = f.report
                 /\ tasks' = [i \in 1..Len(f.to_check) |-> Task(f.to_check[i], NoItem)]
                 /\ futures' = [i \in 1..Len(f.to_check) |-> Pending]
    /\ retry_queue' = <<>>
    /\ results' = <<>>
    /\ pc' = "pool"
    /\ UNCHANGED <<crawl, loop, script, disk, resolved, audit>>

\* Lines 240-244: a pool worker runs check_http for one submitted URL.
CleanWorker(k) ==
    /\ script = "clean" /\ pc = "pool"
    /\ k \in DOMAIN futures /\ futures[k].st = "pending"
    /\ \E h \in HeadResponses(tasks[k].url), g \in GetResponses(tasks[k].url) :
          LET out == check_http(tasks[k].url, h, g)
          IN  /\ futures' = [futures EXCEPT ![k] =
                                 [@ EXCEPT !.st = "done", !.out = out, !.calls = 1,
                                           !.served = Served(tasks[k].url, h, g)]]
              /\ netlog' = netlog \cup NetCalls(tasks[k].url, out)
    /\ UNCHANGED <<crawl, loop, script, pc, now, checked_at, disk, tasks, results, mem, writes, startData,
                   report>>

\* Lines 245-250: as_completed hands over one finished future.
CleanCollect(k) ==
    /\ script = "clean" /\ pc = "pool"
    /\ k \in DOMAIN futures /\ futures[k].st = "done"
    /\ futures' = [futures EXCEPT ![k].st = "collected"]
    /\ results' = DictPut(results, tasks[k].url,
                          IF futures[k].out.raised
                          THEN Outcome(FALSE, NoStatus, "", "checker_crash", FALSE, "",
                                       futures[k].out.calls)
                          ELSE futures[k].out)
    /\ UNCHANGED <<crawl, loop, script, pc, now, checked_at, disk, tasks, mem, audit,
                   report>>

\* A loop that ends as soon as one future was handed over.
PoolStarted == \E k \in DOMAIN futures : futures[k].st = "collected"

\* Line 245: the as_completed loop ends when every future was handed over.
PoolDrained == \A k \in DOMAIN futures : futures[k].st = "collected"

\* Lines 252-299.
CleanMerge ==
    /\ script = "clean" /\ pc = "pool" /\ PoolDrained
    /\ LET m == CleanMergeAll(data, build_index(dataFile), quarantine, report, results,
                              checked_at)
       IN  /\ data' = m.data
           /\ quarantine' = m.quarantine
           /\ retry_queue' = m.retry_queue
           /\ report' = m.report
    /\ pc' = "backup"
    /\ UNCHANGED <<crawl, loop, script, now, checked_at, disk, pool, resolved, audit>>

\* Lines 303-312: the backup of the file as it is on disk.
CleanBackup ==
    /\ script = "clean" /\ pc = "backup"
    /\ \E t \in now..MaxClock :
          /\ now' = t
          /\ backupFiles' = WriteBackup(backupFiles, BackupPath("companies.json.bak", t),
                                        dataFile)
    /\ writes' = Append(writes, "backup")
    /\ pc' = "write_data"
    /\ UNCHANGED <<crawl, loop, script, checked_at, dataFile, retryFile, quarantineFile, outFiles, pool, mem,
                   netlog, startData,
                   report>>

\* Line 314.
CleanWriteData ==
    /\ script = "clean" /\ pc = "write_data"
    /\ dataFile' = data
    /\ writes' = Append(writes, "data")
    /\ pc' = "write_quarantine"
    /\ UNCHANGED <<crawl, loop, script, now, checked_at, backupFiles, retryFile, quarantineFile, outFiles, pool,
                   mem, netlog, startData,
                   report>>

\* Line 315.
CleanWriteQuarantine ==
    /\ script = "clean" /\ pc = "write_quarantine"
    /\ quarantineFile' = quarantine
    /\ writes' = Append(writes, "quarantine")
    /\ pc' = "write_retry"
    /\ UNCHANGED <<crawl, loop, script, now, checked_at, dataFile, backupFiles, retryFile, outFiles,
                   pool, mem, netlog, startData,
                   report>>

\* Line 316.
CleanWriteRetry ==
    /\ script = "clean" /\ pc = "write_retry"
    /\ retryFile' = retry_queue
    /\ writes' = Append(writes, "retry")
    /\ pc' = "write_report"
    /\ UNCHANGED <<crawl, loop, script, now, checked_at, dataFile, backupFiles, quarantineFile, outFiles, pool,
                   mem, netlog, startData,
                   report>>

\* Lines 317-330.
CleanWriteReport ==
    /\ script = "clean" /\ pc = "write_report"
    /\ outFiles' = DictPut(outFiles, "data/url_cleaning_report.json", report)
    /\ writes' = Append(writes, "report")
    /\ pc' = "done"
    /\ UNCHANGED <<crawl, loop, script, now, checked_at, dataFile, backupFiles, retryFile,
                   quarantineFile, pool, mem, netlog, startData, report>>

\* ------------------------------------------------ retry_pending_urls.main
\* Line 168: {c["company"]: c for c in companies if c["company"]}, kept as the
\* sequence of its values in insertion order.
MapPutCompany(m, c) ==
    IF c.company = "" THEN m
    ELSE IF \E i \in 1..Len(m) : m[i].company = c.company
    THEN [i \in 1..Len(m) |-> IF m[i].company = c.company THEN c ELSE m[i]]
    ELSE Append(m, c)

company_map(companies) == FoldLeft(MapPutCompany, <<>>, companies)

MapHas(m, cname) == \E i \in 1..Len(m) : m[i].company = cname

\* A lookup that hands back the first company of the map whatever the name.
MapFront(m, cname) == IF Len(m) >= 1 THEN 1 ELSE 0

MapIndex(m, cname) == CHOOSE i \in 1..Len(m) : m[i].company = cname

\* Lines 117-124: the content of the latest backup, [] when there is none.
find_latest_full_backup(files) ==
    LET valid == {p \in DOMAIN files : p.name = "companies.validonly.bak"}
        full == {p \in DOMAIN files : p.name = "companies.json.bak"}
        globbed == IF valid # {} THEN valid ELSE full
    IN  IF globbed = {} THEN <<>>
        ELSE files[CHOOSE p \in globbed : \A q \in globbed : q.ts <= p.ts]

\* Lines 158-166 and 231: the backup's tool for (cname, tname), the last one
\* winning, or the bare {"name": tname} when the backup has none.
tool_template(full_backup, cname, tname) ==
    FoldLeft(LAMBDA acc, c :
                 IF c.company # cname \/ c.company = "" THEN acc
                 ELSE FoldLeft(LAMBDA a, t : IF t.name = tname /\ tname # "" THEN t ELSE a,
                               acc, c.tools),
             [Tool(tname, "", FALSE) EXCEPT !.source_type = ""],
             full_backup)

\* A lookup that looks at the first tool only.
first_slot_idx(tools, tname) ==
    IF Len(tools) >= 1 /\ tools[1].name = tname THEN 1 ELSE 0

\* Line 230: the index of the first tool with this very name, 0 for None.
existing_idx(tools, tname) ==
    IF \E i \in 1..Len(tools) : tools[i].name = tname
    THEN CHOOSE i \in 1..Len(tools) :
             /\ tools[i].name = tname
             /\ \A j \in 1..(i - 1) : tools[j].name # tname
    ELSE 0

\* Lines 217-244: the upsert of one recovered (company, tool).
retry_upsert(m, full_backup, cname, tname, url, out, at, today) ==
    LET m1 == IF MapHas(m, cname) THEN m
              ELSE Append(m, [Company(cname, <<>>) EXCEPT !.updated_at = today])
        ci == MapIndex(m1, cname)
        final == IF out.final_url # "" THEN out.final_url ELSE url
        template == tool_template(full_backup, cname, tname)
        base_tool == [template EXCEPT
                         !.source_url = final, !.final_url = final,
                         !.http_status = out.status_code, !.checked_at = at,
                         !.evidence_title = out.evidence_title, !.verified = TRUE,
                         !.source_type = IF template.source_type = ""
                                         THEN "vendor_case_study"
                                         ELSE template.source_type]
        idx == existing_idx(m1[ci].tools, tname)
    IN  IF idx = 0
        THEN [m1 EXCEPT ![ci].tools = Append(@, base_tool)]
        ELSE [m1 EXCEPT ![ci].tools[idx] = base_tool]

\* A merge that leaves every checked item in the queue.
RetryMergeKeep(acc, kv, items, full_backup, at, today) ==
    [acc EXCEPT !.remaining = Append(@, items[kv.key].item)]

\* Lines 201-261: one collected result.
RetryMergeOne(acc, kv, items, full_backup, at, today) ==
    LET item == items[kv.key].item
        out == kv.value
    IN  IF ~out.valid
        THEN [acc EXCEPT !.remaining =
                  Append(@, [item EXCEPT !.checked_at = at,
                                         !.reason = "invalid_retry_item"])]
        ELSE IF out.ok
        THEN [acc EXCEPT
                 !.data = retry_upsert(@, full_backup, item.company, item.tool,
                                       item.source_url, out, at, today),
                 !.resolved =
                     Append(@, Item(item.company, item.tool, item.source_url,
                                    IF out.final_url # "" THEN out.final_url
                                    ELSE item.source_url,
                                    out.status_code, "", at))]
        ELSE [acc EXCEPT !.remaining =
                  Append(@, [item EXCEPT
                                !.checked_at = at, !.http_status = out.status_code,
                                !.final_url = out.final_url,
                                !.reason = IF out.status_code \notin {NoStatus, 0}
                                           THEN http_reason(out.status_code)
                                           ELSE "network_error"])]

\* Lines 146-168: read the files, build the maps.
RetryLoad ==
    /\ script = "retry" /\ pc = "start"
    /\ \E t \in now..MaxClock : now' = t /\ checked_at' = t
    /\ data' = company_map(dataFile)
    /\ tasks' = [i \in 1..Len(retryFile) |-> Task(retryFile[i].source_url, retryFile[i])]
    /\ futures' = [i \in 1..Len(retryFile) |-> Pending]
    /\ results' = <<>>
    /\ retry_queue' = <<>>
    /\ resolved' = <<>>
    /\ pc' = "pool"
    /\ UNCHANGED <<crawl, loop, script, disk, quarantine, audit,
                   report>>

\* Lines 173-178: run_item on an item that lacks a company, a tool or a URL.
RetryInvalidItem(k) ==
    /\ script = "retry" /\ pc = "pool"
    /\ k \in DOMAIN futures /\ futures[k].st = "pending"
    /\ tasks[k].item.company = "" \/ tasks[k].item.tool = "" \/ tasks[k].url = ""
    /\ futures' = [futures EXCEPT ![k] =
                      [@ EXCEPT !.st = "done",
                                !.out = [Outcome(FALSE, NoStatus, "", "", FALSE, "", <<>>)
                                            EXCEPT !.valid = FALSE]]]
    /\ UNCHANGED <<crawl, loop, script, pc, now, checked_at, disk, tasks, results, mem, audit,
                   report>>

\* Line 113: the wait after failed attempt i, in units of base_sleep.
backoff(i) == 2 ^ i

\* A retry_check that counts its attempts from 1 when it computes the wait.
retry_check_late(fut, out) ==
    IF out.raised \/ out.ok
    THEN [fut EXCEPT !.st = "done", !.out = out, !.calls = @ + 1]
    ELSE IF fut.calls < Attempts - 1
    THEN [fut EXCEPT !.out = out, !.calls = @ + 1,
                     !.sleeps = Append(@, backoff(fut.calls + 1))]
    ELSE [fut EXCEPT !.st = "done", !.out = out, !.calls = @ + 1]

\* A retry_check that runs all its attempts whatever they return.
retry_check_through(fut, out) ==
    IF out.raised \/ fut.calls >= Attempts - 1
    THEN [fut EXCEPT !.st = "done", !.out = out, !.calls = @ + 1]
    ELSE [fut EXCEPT !.out = out, !.calls = @ + 1, !.sleeps = Append(@, backoff(fut.calls))]

\* Lines 101-114: what retry_check does with the outcome of call number i
\* (0-indexed) of http_check_once: return it, sleep and go on, or give up.
retry_check_step(fut, out) ==
    IF out.raised \/ out.ok
    THEN [fut EXCEPT !.st = "done", !.out = out, !.calls = @ + 1]
    ELSE IF fut.calls < Attempts - 1
    THEN [fut EXCEPT !.out = out, !.calls = @ + 1, !.sleeps = Append(@, backoff(fut.calls))]
    ELSE [fut EXCEPT !.st = "done", !.out = out, !.calls = @ + 1]

\* Lines 180-185 and 105-113: one attempt of retry_check for a submitted item.
RetryAttempt(k) ==
    /\ script = "retry" /\ pc = "pool"
    /\ k \in DOMAIN futures /\ futures[k].st = "pending"
    /\ ~(tasks[k].item.company = "" \/ tasks[k].item.tool = "" \/ tasks[k].url = "")
    /\ futures[k].calls < Attempts
    /\ \E h \in HeadResponses(tasks[k].url), g \in GetResponses(tasks[k].url) :
          LET out == http_check_once(tasks[k].url, h, g)
          IN  /\ futures' = [futures EXCEPT ![k] =
                                 [retry_check_step(@, out) EXCEPT
                                     !.served = Served(tasks[k].url, h, g),
                                     !.last = <<out.status_code, out.final_url>>]]
              /\ netlog' = netlog \cup NetCalls(tasks[k].url, out)
    /\ UNCHANGED <<crawl, loop, script, pc, now, checked_at, disk, tasks, results, mem, writes, startData,
                   report>>

\* Lines 198-199: checked_results.append(fut.result()); an exception that
\* left run_item is raised again here and ends the script.
RetryCollect(k) ==
    /\ script = "retry" /\ pc = "pool"
    /\ k \in DOMAIN futures /\ futures[k].st = "done"
    /\ futures' = [futures EXCEPT ![k].st = "collected"]
    /\ IF futures[k].out.raised
       THEN /\ pc' = "crashed"
            /\ UNCHANGED results
       ELSE /\ pc' = pc
            /\ results' = Append(results, [key |-> k, value |-> futures[k].out])
    /\ UNCHANGED <<crawl, loop, script, now, checked_at, disk, tasks, mem, audit,
                   report>>

\* Lines 201-264: the merge of the collected results and the sort.
RetryMerge ==
    /\ script = "retry" /\ pc = "pool" /\ PoolDrained
    /\ LET m == FoldLeft(LAMBDA a, kv :
                             RetryMergeOne(a, kv, tasks,
                                           find_latest_full_backup(backupFiles),
                                           checked_at, now),
                         [data |-> data, resolved |-> <<>>, remaining |-> <<>>],
                         results)
       IN  /\ data' = sorted_by_company(m.data)
           /\ resolved' = m.resolved
           /\ retry_queue' = m.remaining
    /\ pc' = "backup"
    /\ UNCHANGED <<crawl, loop, script, now, checked_at, disk, pool, quarantine, audit,
                   report>>

\* Lines 266-268.
RetryBackup ==
    /\ script = "retry" /\ pc = "backup"
    /\ \E t \in now..MaxClock :
          /\ now' = t
          /\ backupFiles' = WriteBackup(backupFiles, BackupPath("companies.before_retry", t),
                                        dataFile)
    /\ writes' = Append(writes, "backup")
    /\ pc' = "write_data"
    /\ UNCHANGED <<crawl, loop, script, checked_at, dataFile, retryFile, quarantineFile, outFiles, pool, mem,
                   netlog, startData,
                   report>>

\* Line 270.
RetryWriteData ==
    /\ script = "retry" /\ pc = "write_data"
    /\ dataFile' = data
    /\ writes' = Append(writes, "data")
    /\ pc' = "write_retry"
    /\ UNCHANGED <<crawl, loop, script, now, checked_at, backupFiles, retryFile, quarantineFile, outFiles, pool,
                   mem, netlog, startData,
                   report>>

\* Line 271.
RetryWriteRetry ==
    /\ script = "retry" /\ pc = "write_retry"
    /\ retryFile' = retry_queue
    /\ writes' = Append(writes, "retry")
    /\ pc' = "write_report"
    /\ UNCHANGED <<crawl, loop, script, now, checked_at, dataFile, backupFiles, quarantineFile, outFiles, pool,
                   mem, netlog, startData,
                   report>>

\* Lines 273-292: retry_queue_resolved.json and the report.
RetryWriteReport ==
    /\ script = "retry" /\ pc = "write_report"
    /\ outFiles' = DictPut(DictPut(outFiles, "data/retry_queue_resolved.json", resolved),
                           "data/retry_run_report.json",
                           [input_retry_items |-> Len(tasks),
                            resolved_items |-> Len(resolved),
                            remaining_items |-> Len(retry_queue)])
    /\ writes' = writes \o <<"resolved", "report">>
    /\ pc' = "done"
    /\ UNCHANGED <<crawl, loop, script, now, checked_at, dataFile, backupFiles, retryFile,
                   quarantineFile, pool, mem, netlog, startData, report>>

\* ------------------------------------------- research_enrich_to_1000.main
total_verified(d) ==
    FoldLeft(LAMBDA n, c : n + Cardinality({i \in 1..Len(c.tools) : c.tools[i].verified}),
             0, d)

has_pair(m, company, tool) ==
    /\ MapHas(m, company)
    /\ \E i \in 1..Len(m[MapIndex(m, company)].tools) :
          m[MapIndex(m, company)].tools[i].name = tool

\* Lines 173-183.
ensure_company(m, cname, today) ==
    IF MapHas(m, cname) THEN m
    ELSE Append(m, [Company(cname, <<>>) EXCEPT !.updated_at = today])

\* Lines 193-219.
add_verified_entry(m, cname, template_tool, checked, source_url, at, today) ==
    LET m1 == ensure_company(m, cname, today)
        ci == MapIndex(m1, cname)
        final == IF checked.final_url # "" THEN checked.final_url ELSE source_url
    IN  IF \E i \in 1..Len(m1[ci].tools) : m1[ci].tools[i].name = template_tool.name
        THEN m1
        ELSE [m1 EXCEPT
                 ![ci].tools =
                     Append(@, [name |-> template_tool.name, source_url |-> final,
                                source_type |-> IF template_tool.source_type = ""
                                                THEN "vendor_case_study"
                                                ELSE template_tool.source_type,
                                verified |-> TRUE, http_status |-> checked.status_code,
                                checked_at |-> at, final_url |-> final,
                                evidence_title |-> checked.evidence_title]),
                 ![ci].updated_at = today]

\* The (company name, tool) pairs of a dataset with both names non-empty.
RECURSIVE NamedPairs(_, _, _)
NamedPairs(d, ci, ti) ==
    IF ci > Len(d) THEN <<>>
    ELSE IF ti > Len(d[ci].tools) THEN NamedPairs(d, ci + 1, 1)
    ELSE (IF d[ci].company # "" /\ d[ci].tools[ti].name # ""
          THEN <<[c |-> d[ci].company, t |-> d[ci].tools[ti]]>>
          ELSE <<>>) \o NamedPairs(d, ci, ti + 1)

\* Lines 244-255: the candidate pool from the backup.
enrich_candidates(source, m) ==
    SelectSeq(NamedPairs(source, 1, 1), LAMBDA p : ~has_pair(m, p.c, p.t.name))

\* Lines 262-268: the submit loop; url_cache is still empty while it runs.
enrich_submitted(candidates, url_cache) ==
    FoldLeft(LAMBDA acc, p :
                 IF strip(p.t.source_url) = "" THEN acc
                 ELSE IF DictHas(url_cache, strip(p.t.source_url)) THEN acc
                 ELSE Append(acc, strip(p.t.source_url)),
             <<>>, candidates)

\* Lines 276-286: phase 1 over the candidates, until the target is reached.
enrich_phase1(m, candidates, url_cache, at, today) ==
    FoldLeft(LAMBDA acc, p :
                 IF acc.stop \/ total_verified(acc.data) >= Target
                 THEN [acc EXCEPT !.stop = TRUE]
                 ELSE IF strip(p.t.source_url) = "" THEN acc
                 ELSE IF /\ DictHas(url_cache, strip(p.t.source_url))
                         /\ DictGet(url_cache, strip(p.t.source_url)).ok
                         /\ ~has_pair(acc.data, p.c, p.t.name)
                 THEN [acc EXCEPT !.data = add_verified_entry(@, p.c, p.t,
                            DictGet(url_cache, strip(p.t.source_url)),
                            strip(p.t.source_url), at, today)]
                 ELSE acc,
             [data |-> m, stop |-> FALSE], candidates).data

\* args.backup, read at line 238.
EnrichSource == backupFiles[BackupPath("companies.json.bak", 0)]

\* Lines 236-268: read the files, build the candidates, submit phase 1.
EnrichLoad ==
    /\ script = "enrich" /\ pc = "start"
    /\ BackupPath("companies.json.bak", 0) \in DOMAIN backupFiles
    /\ \E t \in now..MaxClock : now' = t /\ checked_at' = t
    /\ data' = company_map(dataFile)
    /\ LET candidates == enrich_candidates(EnrichSource, company_map(dataFile))
           urls == enrich_submitted(candidates, <<>>)
       IN  /\ todo' = candidates
           /\ tasks' = [i \in 1..Len(urls) |-> Task(urls[i], NoItem)]
           /\ futures' = [i \in 1..Len(urls) |-> Pending]
    /\ results' = <<>>
    /\ pc' = "pool"
    /\ UNCHANGED <<crawl, script, disk, quarantine, retry_queue, resolved, audit, direct,
                   report>>

\* Line 268: a pool worker runs check_url for one submission.
EnrichWorker(k) ==
    /\ script = "enrich" /\ pc = "pool"
    /\ k \in DOMAIN futures /\ futures[k].st = "pending"
    /\ \E out \in Outcomes(check_url, tasks[k].url) :
          /\ futures' = [futures EXCEPT ![k] = [@ EXCEPT !.st = "done", !.out = out,
                                                          !.calls = 1]]
          /\ netlog' = netlog \cup NetCalls(tasks[k].url, out)
    /\ UNCHANGED <<crawl, loop, script, pc, now, checked_at, disk, tasks, results, mem, writes,
                   startData,
                   report>>

\* Lines 269-274.
EnrichCollect(k) ==
    /\ script = "enrich" /\ pc = "pool"
    /\ k \in DOMAIN futures /\ futures[k].st = "done"
    /\ futures' = [futures EXCEPT ![k].st = "collected"]
    /\ results' = DictPut(results, tasks[k].url,
                          IF futures[k].out.raised
                          THEN Outcome(FALSE, NoStatus, "", "checker_error", FALSE, "",
                                       futures[k].out.calls)
                          ELSE futures[k].out)
    /\ UNCHANGED <<crawl, loop, script, pc, now, checked_at, disk, tasks, mem, audit,
                   report>>

\* Lines 276-296: phase 1, then the unresolved pairs of phase 2 (none without
\* an API key or once the target is reached).
EnrichPhase1 ==
    /\ script = "enrich" /\ pc = "pool" /\ PoolDrained
    /\ LET merged == enrich_phase1(data, todo, results, checked_at, now)
       IN  /\ data' = merged
           /\ \E api_key \in BOOLEAN :
                 todo' = IF api_key /\ total_verified(merged) < Target
                         THEN SelectSeq(todo, LAMBDA p : ~has_pair(merged, p.c, p.t.name))
                         ELSE <<>>
    /\ pc' = "phase2"
    /\ UNCHANGED <<crawl, script, now, checked_at, disk, pool, quarantine, retry_queue, resolved,
                   audit, direct,
                   report>>

\* What the search collaborator hands back for one pair: nothing usable, or
\* one URL.
SearchHits == {"", UGood}

\* Lines 298-333: one unresolved pair of phase 2; check_url is called by the
\* script itself.
EnrichSearch ==
    /\ script = "enrich" /\ pc = "phase2" /\ todo # <<>>
    /\ IF total_verified(data) >= Target
       THEN /\ todo' = <<>>
            /\ UNCHANGED <<data, direct, netlog, pc>>
       ELSE \E hit \in SearchHits :
               IF hit = ""
               THEN /\ todo' = Tail(todo)
                    /\ UNCHANGED <<data, direct, netlog, pc>>
               ELSE \E checked \in Outcomes(check_url, hit) :
                       LET p == Head(todo)
                       IN  /\ direct' = Append(direct, hit)
                           /\ netlog' = netlog \cup NetCalls(hit, checked)
                           /\ todo' = Tail(todo)
                           /\ pc' = IF checked.raised THEN "crashed" ELSE pc
                           /\ data' = IF checked.ok /\ ~has_pair(data, p.c, p.t.name)
                                      THEN add_verified_entry(data, p.c, p.t, checked, hit,
                                                              checked_at, now)
                                      ELSE data
    /\ UNCHANGED <<crawl, script, now, checked_at, disk, pool, quarantine, retry_queue, resolved,
                   writes, startData,
                   report>>

\* Lines 335-340: the sort and the backup.
EnrichBackup ==
    /\ script = "enrich" /\ pc = "phase2" /\ todo = <<>>
    /\ data' = sorted_by_company(data)
    /\ \E t \in now..MaxClock :
          /\ now' = t
          /\ backupFiles' = WriteBackup(backupFiles,
                                        BackupPath("companies.before_research_enrich", t),
                                        dataFile)
    /\ writes' = Append(writes, "backup")
    /\ pc' = "write_data"
    /\ UNCHANGED <<crawl, loop, script, checked_at, dataFile, retryFile, quarantineFile, outFiles, pool,
                   quarantine, retry_queue, resolved, netlog, startData,
                   report>>

\* Line 341.
EnrichWriteData ==
    /\ script = "enrich" /\ pc = "write_data"
    /\ dataFile' = data
    /\ writes' = Append(writes, "data")
    /\ pc' = "write_report"
    /\ UNCHANGED <<crawl, loop, script, now, checked_at, backupFiles, retryFile, quarantineFile, outFiles,
                   pool, mem, netlog, startData,
                   report>>

\* Lines 343-358.
EnrichWriteReport ==
    /\ script = "enrich" /\ pc = "write_report"
    /\ writes' = Append(writes, "report")
    /\ pc' = "done"
    /\ UNCHANGED <<crawl, loop, script, now, checked_at, disk, pool, mem, netlog, startData,
                   report>>

\* -------------------------------------------------------- fill_to_1000.main
\* Lines 73-80: the (company.lower(), tool.lower()) pairs already verified.
verified_pairs(cur) ==
    UNION {{<<lower(cur[i].company), lower(cur[i].tools[j].name)>> :
               j \in {j \in 1..Len(cur[i].tools) : cur[i].tools[j].verified}} :
           i \in 1..Len(cur)}

\* Lines 97-107: the score of a candidate URL.
url_score(u) ==
    LET p == urlparse(u)
        inner(seg) == \E i \in 1..Len(p.path) :
                          p.path[i] = seg /\ (i < Len(p.path) \/ p.slash)
        tokens == {seg \in {"customer-stories", "customers", "case-study", "case-studies"} :
                      inner(seg)}
        vendor == \E v \in {<<"slack", "com">>, <<"asana", "com">>, <<"miro", "com">>,
                            <<"zoom", "com">>, <<"figma", "com">>, <<"monday", "com">>,
                            <<"airtable", "com">>, <<"clickup", "com">>,
                            <<"notion", "com">>, <<"notion", "so">>,
                            <<"smartsheet", "com">>, <<"canva", "com">>,
                            <<"wrike", "com">>, <<"box", "com">>, <<"dropbox", "com">>,
                            <<"lucid", "co">>} : EndsWithSeq(p.hostname, v)
    IN  2 * Cardinality(tokens) + (IF vendor THEN 2 ELSE 0)

\* list.sort(key=score, reverse=True): stable, highest score first.
ScoreInsert(s, cand) ==
    LET k == Cardinality({i \in 1..Len(s) : s[i].score >= cand.score})
    IN  SubSeq(s, 1, k) \o <<cand>> \o SubSeq(s, k + 1, Len(s))

\* Lines 87-110: the candidates of the backup, best score first.
fill_candidates(bak, pair_set) ==
    FoldLeft(ScoreInsert, <<>>,
             [i \in 1..Len(SelectSeq(NamedPairs(bak, 1, 1), LAMBDA p :
                                /\ strip(p.t.source_url) # ""
                                /\ <<lower(p.c), lower(p.t.name)>> \notin pair_set)) |->
                 LET p == SelectSeq(NamedPairs(bak, 1, 1), LAMBDA q :
                                /\ strip(q.t.source_url) # ""
                                /\ <<lower(q.c), lower(q.t.name)>> \notin pair_set)[i]
                 IN  [score |-> url_score(strip(p.t.source_url)), c |-> p.c, t |-> p.t,
                      url |-> strip(p.t.source_url)]])

\* Lines 113-120: the URL pool, each URL once.
fill_urls(candidates) ==
    FoldLeft(AppendNew, <<>>, [i \in 1..Len(candidates) |-> candidates[i].url])

\* A merge loop that goes on after the need is met.
FillMergeAll(acc, cand, url_result, at, today) ==
    IF ~(DictHas(url_result, cand.url) /\ DictGet(url_result, cand.url).ok) THEN acc
    ELSE IF <<lower(cand.c), lower(cand.t.name)>> \in acc.pair_set THEN acc
    ELSE LET res == DictGet(url_result, cand.url)
             m1 == ensure_company(acc.data, cand.c, today)
             final == IF res.final_url # "" THEN res.final_url ELSE cand.url
         IN  [acc EXCEPT
                 !.data = [m1 EXCEPT ![MapIndex(m1, cand.c)].tools =
                              Append(@, [name |-> cand.t.name, source_url |-> final,
                                         source_type |-> IF cand.t.source_type = ""
                                                         THEN "vendor_case_study"
                                                         ELSE cand.t.source_type,
                                         verified |-> TRUE,
                                         http_status |-> res.status_code,
                                         checked_at |-> at, final_url |-> final,
                                         evidence_title |-> ""])],
                 !.pair_set = @ \cup {<<lower(cand.c), lower(cand.t.name)>>},
                 !.need = @ - 1]

\* Lines 135-168: one candidate of the merge loop.
FillMergeOne(acc, cand, url_result, at, today) ==
    IF acc.need <= 0 THEN acc
    ELSE IF ~(DictHas(url_result, cand.url) /\ DictGet(url_result, cand.url).ok) THEN acc
    ELSE IF <<lower(cand.c), lower(cand.t.name)>> \in acc.pair_set THEN acc
    ELSE LET res == DictGet(url_result, cand.url)
             m1 == ensure_company(acc.data, cand.c, today)
             final == IF res.final_url # "" THEN res.final_url ELSE cand.url
         IN  [acc EXCEPT
                 !.data = [m1 EXCEPT ![MapIndex(m1, cand.c)].tools =
                              Append(@, [name |-> cand.t.name, source_url |-> final,
                                         source_type |-> IF cand.t.source_type = ""
                                                         THEN "vendor_case_study"
                                                         ELSE cand.t.source_type,
                                         verified |-> TRUE,
                                         http_status |-> res.status_code,
                                         checked_at |-> at, final_url |-> final,
                                         evidence_title |-> ""])],
                 !.pair_set = @ \cup {<<lower(cand.c), lower(cand.t.name)>>},
                 !.need = @ - 1]

\* Lines 70-85: already at the target, nothing is written.
FillAlreadyTarget ==
    /\ script = "fill" /\ pc = "start"
    /\ total_verified(dataFile) >= Target
    /\ pc' = "done"
    /\ UNCHANGED <<crawl, loop, script, now, checked_at, disk, pool, mem, audit,
                   report>>

\* Lines 70-124: read the files, score the candidates, submit the URL pool.
FillLoad ==
    /\ script = "fill" /\ pc = "start"
    /\ total_verified(dataFile) < Target
    /\ BackupPath("companies.json.bak", 0) \in DOMAIN backupFiles
    /\ data' = company_map(dataFile)
    /\ LET candidates == fill_candidates(EnrichSource, verified_pairs(dataFile))
           urls == fill_urls(candidates)
       IN  /\ todo' = candidates
           /\ tasks' = [i \in 1..Len(urls) |-> Task(urls[i], NoItem)]
           /\ futures' = [i \in 1..Len(urls) |-> Pending]
    /\ results' = <<>>
    /\ pc' = "pool"
    /\ UNCHANGED <<crawl, script, now, checked_at, disk, quarantine, retry_queue, resolved, audit,
                   direct,
                   report>>

\* Line 124: a pool worker runs check for one URL of the pool.
FillWorker(k) ==
    /\ script = "fill" /\ pc = "pool"
    /\ k \in DOMAIN futures /\ futures[k].st = "pending"
    /\ \E out \in Outcomes(check, tasks[k].url) :
          /\ futures' = [futures EXCEPT ![k] = [@ EXCEPT !.st = "done", !.out = out,
                                                          !.calls = 1]]
          /\ netlog' = netlog \cup NetCalls(tasks[k].url, out)
    /\ UNCHANGED <<crawl, loop, script, pc, now, checked_at, disk, tasks, results, mem, writes,
                   startData,
                   report>>

\* Lines 125-130.
FillCollect(k) ==
    /\ script = "fill" /\ pc = "pool"
    /\ k \in DOMAIN futures /\ futures[k].st = "done"
    /\ futures' = [futures EXCEPT ![k].st = "collected"]
    /\ results' = DictPut(results, tasks[k].url,
                          IF futures[k].out.raised
                          THEN Outcome(FALSE, NoStatus, "", "", FALSE, "",
                                       futures[k].out.calls)
                          ELSE futures[k].out)
    /\ UNCHANGED <<crawl, loop, script, pc, now, checked_at, disk, tasks, mem, audit,
                   report>>

\* Lines 132-171: the merge of the candidates and the sort.
FillMerge ==
    /\ script = "fill" /\ pc = "pool" /\ PoolDrained
    /\ \E t \in now..MaxClock :
          /\ now' = t
          /\ checked_at' = t
          /\ data' = sorted_by_company(
                 FoldLeft(LAMBDA a, cand : FillMergeOne(a, cand, results, t, t),
                          [data |-> data, pair_set |-> verified_pairs(dataFile),
                           need |-> Target - total_verified(dataFile)],
                          todo).data)
    /\ pc' = "backup"
    /\ UNCHANGED <<crawl, loop, script, disk, pool, quarantine, retry_queue, resolved, audit,
                   report>>

\* Lines 173-174.
FillBackup ==
    /\ script = "fill" /\ pc = "backup"
    /\ \E t \in now..MaxClock :
          /\ now' = t
          /\ backupFiles' = WriteBackup(backupFiles,
                                        BackupPath("companies.before_fill_to_1000", t),
                                        dataFile)
    /\ writes' = Append(writes, "backup")
    /\ pc' = "write_data"
    /\ UNCHANGED <<crawl, loop, script, checked_at, dataFile, retryFile, quarantineFile, outFiles, pool, mem,
                   netlog, startData,
                   report>>

\* Line 175.
FillWriteData ==
    /\ script = "fill" /\ pc = "write_data"
    /\ dataFile' = data
    /\ writes' = Append(writes, "data")
    /\ pc' = "write_report"
    /\ UNCHANGED <<crawl, loop, script, now, checked_at, backupFiles, retryFile, quarantineFile, outFiles,
                   pool, mem, netlog, startData,
                   report>>

\* Lines 177-188.
FillWriteReport ==
    /\ script = "fill" /\ pc = "write_report"
    /\ writes' = Append(writes, "report")
    /\ pc' = "done"
    /\ UNCHANGED <<crawl, loop, script, now, checked_at, disk, pool, mem, netlog, startData,
                   report>>

\* ------------------------------------------------- verify_urls.enrich_db
\* verify_urls.ROOT_PATTERNS: the first five patterns only.
is_root_url(url) ==
    \/ url = ""
    \/ /\ Len(urlparse(url).path) >= 1
       /\ Last(urlparse(url).path) \in {"customers", "customer-stories"}
    \/ \E i \in 1..(Len(urlparse(url).path) - 1) :
          urlparse(url).path[i] = "customers" /\ urlparse(url).path[i + 1] = "search"

is_verified(url) == url # "" /\ ~is_root_url(url)

\* company_slug in url.lower(): the company's name is a segment of the path.
slug_in_url(company, url) == lower(company) \in Range(urlparse(url).path)

\* vendor_domain in url, for VENDOR_DOMAINS[tool_name].
vendor_in_url(tool_name, url) ==
    LET p == urlparse(url)
    IN  CASE tool_name = "Slack" -> /\ EndsWithSeq(p.hostname, <<"slack", "com">>)
                                    /\ Len(p.path) >= 1 /\ p.path[1] = "customer-stories"
          [] tool_name = "Zoom" -> EndsWithSeq(p.hostname, <<"zoom", "com">>)
          [] tool_name = "Notion" -> /\ EndsWithSeq(p.hostname, <<"notion", "com">>)
                                     /\ Len(p.path) >= 1 /\ p.path[1] = "customers"
          [] OTHER -> FALSE

\* What a search gives back: no result (also the case of no API key), or one.
SearchResults == {<<>>, <<UGood>>}

NotFound == [url |-> "", net |-> {}, called |-> <<>>]

\* for r in hits: the first accepted result the verifier finds alive, with
\* the requests made and the URLs handed to the verifier on the way.
FirstAlive(hits, accept(_), verifier(_, _, _)) ==
    FoldLeft(LAMBDA later, hit :
                 IF ~accept(hit) THEN later
                 ELSE UNION {IF o.ok
                             THEN {[url |-> hit, net |-> NetCalls(hit, o),
                                    called |-> <<hit>>]}
                             ELSE {[rest EXCEPT !.net = @ \cup NetCalls(hit, o),
                                                !.called = <<hit>> \o @] :
                                      rest \in later} :
                                o \in Outcomes(verifier, hit)},
             {NotFound},
             [i \in 1..Len(hits) |-> hits[Len(hits) + 1 - i]])

\* Lines 81-112.
find_verified_url(company, tool_name, hits, hits2) ==
    UNION {IF a.url # "" THEN {a}
           ELSE {[b EXCEPT !.net = a.net \cup @, !.called = a.called \o @] :
                    b \in FirstAlive(hits2,
                                     LAMBDA u : ~is_root_url(u) /\ vendor_in_url(tool_name, u),
                                     check_url_exists)} :
              a \in FirstAlive(hits,
                               LAMBDA u : ~is_root_url(u) /\ slug_in_url(company, u),
                               check_url_exists)}

\* Every (company, tool) position of the dataset, in file order.
RECURSIVE AllRefs(_, _, _)
AllRefs(d, ci, ti) ==
    IF ci > Len(d) THEN <<>>
    ELSE IF ti > Len(d[ci].tools) THEN AllRefs(d, ci + 1, 1)
    ELSE <<[c |-> ci, t |-> ti]>> \o AllRefs(d, ci, ti + 1)

\* Lines 116-123.
EnrichDbLoad ==
    /\ script = "enrich_db" /\ pc = "start"
    /\ data' = dataFile
    /\ todo' = AllRefs(dataFile, 1, 1)
    /\ pc' = "loop"
    /\ UNCHANGED <<crawl, script, now, checked_at, disk, pool, quarantine, retry_queue, resolved,
                   audit, direct,
                   report>>

\* Lines 123-149: one tool of the loop.
EnrichDbTool ==
    /\ script = "enrich_db" /\ pc = "loop" /\ todo # <<>>
    /\ LET r == Head(todo)
           tool == data[r.c].tools[r.t]
       IN  IF is_verified(tool.source_url)
           THEN \E out \in Outcomes(check_url_exists, tool.source_url) :
                   /\ data' = [data EXCEPT ![r.c].tools[r.t].verified = out.ok]
                   /\ netlog' = netlog \cup NetCalls(tool.source_url, out)
                   /\ direct' = Append(direct, tool.source_url)
           ELSE \E hits \in SearchResults, hits2 \in SearchResults :
                   \E f \in find_verified_url(data[r.c].company, tool.name, hits,
                                              hits2) :
                      /\ data' = IF f.url # ""
                                 THEN [data EXCEPT ![r.c].tools[r.t].source_url = f.url,
                                                   ![r.c].tools[r.t].verified = TRUE]
                                 ELSE [data EXCEPT ![r.c].tools[r.t].verified = FALSE]
                      /\ netlog' = netlog \cup f.net
                      /\ direct' = direct \o f.called
    /\ todo' = Tail(todo)
    /\ UNCHANGED <<crawl, script, pc, now, checked_at, disk, pool, quarantine, retry_queue,
                   resolved, writes, startData,
                   report>>

\* Lines 152-153: the dataset is written in place.
EnrichDbWrite ==
    /\ script = "enrich_db" /\ pc = "loop" /\ todo = <<>>
    /\ dataFile' = data
    /\ writes' = Append(writes, "data")
    /\ pc' = "done"
    /\ UNCHANGED <<crawl, loop, script, now, checked_at, backupFiles, retryFile, quarantineFile, outFiles,
                   pool, mem, netlog, startData,
                   report>>

\* --------------------------------------------------------- verify_urls_v3.run
\* Lines 33-41.
is_valid_url(url) ==
    /\ url # ""
    /\ ~(EndsWithSeq(urlparse(url).hostname, <<"figma", "com">>)
         /\ Len(urlparse(url).path) >= 1 /\ urlparse(url).path[1] = "community")
    /\ ~(is_root_url(url)
         \/ (Len(urlparse(url).path) >= 1 /\ Last(urlparse(url).path) = "case-studies"))
    /\ ~ContainsBadDomainToken(urlparse(url))

\* Lines 67-88: the hits of the three queries, one after the other.
find_url(company, hits) ==
    FirstAlive(hits, LAMBDA u : is_valid_url(u) /\ slug_in_url(company, u),
               check_http_status)

\* Lines 93-100.
V3Load ==
    /\ script = "verify_v3" /\ pc = "start"
    /\ data' = dataFile
    /\ todo' = AllRefs(dataFile, 1, 1)
    /\ pc' = "loop"
    /\ UNCHANGED <<crawl, script, now, checked_at, disk, pool, quarantine, retry_queue, resolved,
                   audit, direct,
                   report>>

\* Lines 100-126: one tool of the loop.
V3Tool ==
    /\ script = "verify_v3" /\ pc = "loop" /\ todo # <<>>
    /\ LET r == Head(todo)
           tool == data[r.c].tools[r.t]
       IN  IF is_valid_url(tool.source_url)
           THEN /\ data' = [data EXCEPT ![r.c].tools[r.t].verified = TRUE]
                /\ UNCHANGED <<netlog, direct>>
           ELSE \E hits \in SearchResults :
                   \E f \in find_url(data[r.c].company, hits) :
                      /\ data' = IF f.url # ""
                                 THEN [data EXCEPT
                                          ![r.c].tools[r.t].source_url = f.url,
                                          ![r.c].tools[r.t].verified = TRUE,
                                          ![r.c].tools[r.t].source_type =
                                              "vendor_case_study"]
                                 ELSE [data EXCEPT ![r.c].tools[r.t].verified = FALSE,
                                                   ![r.c].tools[r.t].source_url = ""]
                      /\ netlog' = netlog \cup f.net
                      /\ direct' = direct \o f.called
    /\ todo' = Tail(todo)
    /\ UNCHANGED <<crawl, script, pc, now, checked_at, disk, pool, quarantine, retry_queue,
                   resolved, writes, startData,
                   report>>

\* Lines 128-129: the dataset is written in place.
V3Write ==
    /\ script = "verify_v3" /\ pc = "loop" /\ todo = <<>>
    /\ dataFile' = data
    /\ writes' = Append(writes, "data")
    /\ pc' = "done"
    /\ UNCHANGED <<crawl, loop, script, now, checked_at, backupFiles, retryFile, quarantineFile, outFiles,
                   pool, mem, netlog, startData,
                   report>>

\* ------------------------------------------------------ web_verify.WebVerifier
TARGET_TOOLS ==
    {"Slack", "Microsoft Teams", "Zoom", "Jira", "Confluence", "Notion", "Figma", "Miro",
     "Monday.com", "Asana", "Trello", "Basecamp", "Google Workspace", "Google Meet",
     "Dropbox", "Box"}

\* Lines 77-84: the companies with an unverified target tool.
has_unverified(company) ==
    \E i \in 1..Len(company.tools) :
       ~company.tools[i].verified /\ company.tools[i].name \in TARGET_TOOLS

\* company_map[name] = company, a name already present keeps its place.
PutByName(m, c) ==
    IF \E i \in 1..Len(m) : m[i].company = c.company
    THEN [i \in 1..Len(m) |-> IF m[i].company = c.company THEN c ELSE m[i]]
    ELSE Append(m, c)

\* Line 174: the URL the simulated search makes up.
example_url(company_name, tool_name) ==
    "https://example.com/customers/" \o lower(company_name) \o "-" \o lower(tool_name)

\* Lines 186-219: lucky are the tools for which random.random() < 0.1 came
\* up in one of the five queries.
verify_company(company, lucky, today) ==
    [company EXCEPT
        !.tools = [i \in 1..Len(company.tools) |->
                      IF /\ ~company.tools[i].verified
                         /\ company.tools[i].name \in TARGET_TOOLS
                         /\ i \in lucky
                      THEN [company.tools[i] EXCEPT
                               !.verified = TRUE,
                               !.source_url = example_url(company.company,
                                                          company.tools[i].name),
                               !.source_type = "customer_case_study"]
                      ELSE company.tools[i]],
        !.updated_at = today]

\* Lines 229-233: nothing to verify, nothing is written.
WebNothing ==
    /\ script = "web_verify" /\ pc = "start"
    /\ SelectSeq(dataFile, has_unverified) = <<>>
    /\ pc' = "done"
    /\ UNCHANGED <<crawl, loop, script, now, checked_at, disk, pool, mem, audit,
                   report>>

\* Lines 229-240: companies_to_process (at most 20) with their positions, and
\* the mapping by name.
WebLoad ==
    /\ script = "web_verify" /\ pc = "start"
    /\ SelectSeq(dataFile, has_unverified) # <<>>
    /\ LET to_verify == SelectSeq(dataFile, has_unverified)
           to_process == SubSeq(to_verify, 1, IF Len(to_verify) < 20 THEN Len(to_verify)
                                              ELSE 20)
       IN  todo' = [i \in 1..Len(to_process) |-> [i |-> i, company |-> to_process[i]]]
    /\ data' = FoldLeft(PutByName, <<>>, dataFile)
    /\ pc' = "loop"
    /\ UNCHANGED <<crawl, script, now, checked_at, disk, pool, quarantine, retry_queue, resolved,
                   audit, direct,
                   report>>

\* Lines 243-260: one company of the loop, saved after every fifth.
WebCompany ==
    /\ script = "web_verify" /\ pc = "loop" /\ todo # <<>>
    /\ \E t \in now..MaxClock :
          \E lucky \in SUBSET (1..Len(Head(todo).company.tools)) :
             LET merged == PutByName(data, verify_company(Head(todo).company, lucky, t))
             IN  /\ now' = t
                 /\ data' = merged
                 /\ IF Head(todo).i % 5 = 0
                    THEN dataFile' = merged /\ writes' = Append(writes, "data")
                    ELSE UNCHANGED <<dataFile, writes>>
    /\ todo' = Tail(todo)
    /\ UNCHANGED <<crawl, script, pc, checked_at, backupFiles, retryFile, quarantineFile, outFiles, pool,
                   quarantine, retry_queue, resolved, netlog, startData, direct,
                   report>>

\* Lines 270-272.
WebSave ==
    /\ script = "web_verify" /\ pc = "loop" /\ todo = <<>>
    /\ dataFile' = data
    /\ writes' = Append(writes, "data")
    /\ pc' = "done"
    /\ UNCHANGED <<crawl, loop, script, now, checked_at, backupFiles, retryFile, quarantineFile, outFiles,
                   pool, mem, netlog, startData,
                   report>>

\* ------------------------------------------------------------ merge_kr_cases
KrCase(company, tool, url) ==
    [company |-> company, tool |-> tool, source_url |-> url,
     source_type |-> "customer_case_study", updated_at |-> 0]

\* data/kr_collab_cases.json
KrInputs == {<<KrCase("Acme", "Slack", UBeta)>>, <<KrCase("Acme", "ZOOM", UBeta)>>,
             <<KrCase("Gamma", "Zoom", UGood)>>}

\* Lines 25-59: one case; company_map was built from the companies as loaded.
kr_merge_one(loaded, current, kr_case) ==
    LET entry == [Tool(kr_case.tool, kr_case.source_url, TRUE) EXCEPT
                     !.source_type = kr_case.source_type]
        same == {i \in 1..Len(loaded) :
                    lower(loaded[i].company) = lower(kr_case.company)}
    IN  IF same # {}
        THEN LET ci == CHOOSE i \in same : \A j \in same : j <= i
             IN  IF kr_case.tool \notin {upper(current[ci].tools[k].name) :
                                            k \in 1..Len(current[ci].tools)}
                 THEN [current EXCEPT ![ci].tools = Append(@, entry)]
                 ELSE current
        ELSE Append(current, [Company(kr_case.company, <<entry>>) EXCEPT
                                 !.updated_at = kr_case.updated_at])

\* Lines 8-63: the whole script; the dataset is written in place.
KrMerge ==
    /\ script = "merge_kr" /\ pc = "start"
    /\ \E kr_cases \in KrInputs :
          /\ data' = FoldLeft(LAMBDA cur, k : kr_merge_one(dataFile, cur, k), dataFile,
                              kr_cases)
          /\ dataFile' = FoldLeft(LAMBDA cur, k : kr_merge_one(dataFile, cur, k), dataFile,
                                  kr_cases)
    /\ writes' = Append(writes, "data")
    /\ pc' = "done"
    /\ UNCHANGED <<crawl, loop, script, now, checked_at, backupFiles, retryFile, quarantineFile, outFiles,
                   pool, quarantine, retry_queue, resolved, netlog, startData,
                   report>>

\* ------------------------------------- build_researched_1000_sitemap.main
\* company_from_url on the URLs of the universe: the last path segment, its
\* dashes turned into blanks, title-cased.
company_from_url(url) ==
    LET segs == urlparse(url).path
    IN  IF segs = <<>> THEN "Unknown"
        ELSE CASE Last(segs) = "acme" -> "Acme"
               [] Last(segs) = "beta" -> "Beta"
               [] Last(segs) = "customer-stories" -> "Customer Stories"
               [] Last(segs) = "customers" -> "Customers"
               [] OTHER -> "Unknown"

\* Lines 83-109, 200-210: what the crawl of the vendor sitemaps brings back,
\* after the dedup by URL.
CrawlResults ==
    {<<[tool |-> "Slack", url |-> UGood], [tool |-> "Slack", url |-> UStory]>>}

\* Lines 227-239: one verified item.
VerifiedItem(tool_name, out, at) ==
    [company |-> company_from_url(out.final_url), tool_name |-> tool_name,
     source_url |-> out.final_url, final_url |-> out.final_url,
     source_host |-> urlparse(out.final_url).hostname, http_status |-> out.status_code,
     checked_at |-> at, evidence_title |-> out.evidence_title, verified |-> TRUE]

\* Lines 158-185: one item into the companies grouped by name.
build_one(grouped, it, today) ==
    LET tool == [Tool(it.tool_name, it.source_url, TRUE) EXCEPT
                     !.http_status = it.http_status, !.checked_at = it.checked_at,
                     !.final_url = it.final_url, !.evidence_title = it.evidence_title]
    IN  IF \E i \in 1..Len(grouped) : grouped[i].company = it.company
        THEN [i \in 1..Len(grouped) |->
                 IF grouped[i].company = it.company
                    /\ \A j \in 1..Len(grouped[i].tools) :
                          grouped[i].tools[j].name # it.tool_name
                 THEN [grouped[i] EXCEPT !.tools = Append(@, tool)]
                 ELSE grouped[i]]
        ELSE Append(grouped, [company |-> it.company, domain |-> it.source_host,
                              industry |-> "Unknown", tools |-> <<tool>>,
                              updated_at |-> today])

build_companies(items, today) ==
    sorted_by_company(FoldLeft(LAMBDA g, it : build_one(g, it, today), <<>>, items))

\* Lines 197-216: the crawl, the dedup and the submission of every candidate.
SitemapLoad ==
    /\ script = "sitemap" /\ pc = "start"
    /\ \E t \in now..MaxClock : now' = t /\ checked_at' = t
    /\ \E candidates \in CrawlResults :
          /\ tasks' = [i \in 1..Len(candidates) |-> Task(candidates[i].url, candidates[i])]
          /\ futures' = [i \in 1..Len(candidates) |-> Pending]
    /\ results' = <<>>
    /\ resolved' = <<>>
    /\ pc' = "pool"
    /\ UNCHANGED <<crawl, loop, script, disk, data, quarantine, retry_queue, audit,
                   report>>

\* Line 216: one worker runs verify_url.
SitemapWorker(k) ==
    /\ script = "sitemap" /\ pc = "pool"
    /\ k \in DOMAIN futures /\ futures[k].st = "pending"
    /\ \E out \in Outcomes(verify_url, tasks[k].url) :
          /\ futures' = [futures EXCEPT ![k] = [@ EXCEPT !.st = "done", !.out = out,
                                                          !.calls = 1]]
          /\ netlog' = netlog \cup NetCalls(tasks[k].url, out)
    /\ UNCHANGED <<crawl, loop, script, pc, now, checked_at, disk, tasks, results, mem, writes, startData,
                   report>>

\* Lines 217-241: the body of the as_completed loop for one finished future;
\* fut.result() raises again what left verify_url, and that ends the script.
\* verified_items is kept in results, seen_final in resolved.
SitemapCollect(k) ==
    /\ script = "sitemap" /\ pc = "pool"
    /\ Len(results) < Target
    /\ k \in DOMAIN futures /\ futures[k].st = "done"
    /\ futures' = [futures EXCEPT ![k].st = "collected"]
    /\ LET out == futures[k].out
       IN  IF out.raised
           THEN /\ pc' = "crashed"
                /\ UNCHANGED <<results, resolved>>
           ELSE IF ~out.ok \/ out.final_url = "" \/ out.final_url \in Range(resolved)
           THEN UNCHANGED <<pc, results, resolved>>
           ELSE /\ pc' = pc
                /\ resolved' = Append(resolved, out.final_url)
                /\ results' =
                      IF EndsWithSeq(urlparse(out.final_url).path, <<"customers", "list-all">>)
                      THEN results
                      ELSE Append(results, VerifiedItem(tasks[k].item.tool, out, checked_at))
    /\ UNCHANGED <<crawl, loop, script, now, checked_at, disk, tasks, data, quarantine, retry_queue,
                   audit,
                   report>>

\* Lines 213-258: the loop ends when every future was handed over or the
\* target is reached; leaving the with block waits for the workers still
\* running. Then data/researched_verified_1000.json is written.
SitemapWriteFlat ==
    /\ script = "sitemap" /\ pc = "pool"
    /\ \/ PoolDrained
       \/ /\ Len(results) >= Target
          /\ \A k \in DOMAIN futures : futures[k].st # "pending"
    /\ outFiles' = DictPut(outFiles, "data/researched_verified_1000.json",
                           SubSeq(results, 1, IF Len(results) < Target THEN Len(results)
                                              ELSE Target))
    /\ writes' = Append(writes, "flat")
    /\ pc' = "write_db"
    /\ UNCHANGED <<crawl, loop, script, now, checked_at, dataFile, backupFiles, retryFile,
                   quarantineFile, pool, mem, netlog, startData,
                   report>>

\* Lines 260-261: build_companies and data/companies.researched1000.json.
SitemapWriteDb ==
    /\ script = "sitemap" /\ pc = "write_db"
    /\ \E t \in now..MaxClock :
          /\ now' = t
          /\ data' = build_companies(DictGet(outFiles, "data/researched_verified_1000.json"), t)
          /\ outFiles' = DictPut(outFiles, "data/companies.researched1000.json",
                                 build_companies(DictGet(outFiles,
                                                         "data/researched_verified_1000.json"),
                                                 t))
    /\ writes' = Append(writes, "db")
    /\ pc' = "write_report"
    /\ UNCHANGED <<crawl, loop, script, checked_at, dataFile, backupFiles, retryFile, quarantineFile,
                   pool, quarantine, retry_queue, resolved, netlog, startData,
                   report>>

\* Lines 263-273: the report, written and printed.
SitemapWriteReport ==
    /\ script = "sitemap" /\ pc = "write_report"
    /\ writes' = Append(writes, "report")
    /\ pc' = "done"
    /\ UNCHANGED <<crawl, loop, script, now, checked_at, disk, pool, mem, netlog, startData,
                   report>>

\* ------------------------------------------------------------ the fixtures
\* A scraped dataset: one URL referenced by two (company, tool) pairs, a
\* listing page and an entry marked verified without URL.
ScrapedData ==
    <<Company("Acme", <<Tool("Slack", UGood, TRUE), Tool("Zoom", URoot, TRUE),
                        Tool("Notion", "", TRUE)>>),
      Company("Beta", <<Tool("Slack", UGood, TRUE), Tool("Zoom", UBeta, FALSE)>>)>>

\* The files as a cleaning run leaves them when UGood answered 429 and the
\* request for Beta's Zoom page failed in the network.
CleanedData ==
    <<Company("Acme", <<[Tool("Slack", UGood, FALSE) EXCEPT !.http_status = 429,
                                                            !.final_url = UGood],
                        [Tool("Zoom", "", FALSE) EXCEPT !.source_type = "unverified"]>>),
      Company("Beta", <<[Tool("Zoom", "", FALSE) EXCEPT !.source_type = "unverified"]>>)>>

CleanedRetry == <<Item("Acme", "Slack", UGood, UGood, 429, "http_429", 0)>>

CleanedQuarantine ==
    <<Item("Acme", "Zoom", URoot, "", NoStatus, "root_or_listing_page", 0),
      Item("Beta", "Zoom", UBeta, "", NoStatus, "network_error", 0)>>

\* The files as a cleaning run of ScrapedData leaves them when UGood answered
\* 429 and UBeta 200: both references of UGood wait in the retry queue.
ThrottledData ==
    <<Company("Acme", <<[Tool("Slack", UGood, FALSE) EXCEPT !.http_status = 429,
                                                            !.final_url = UGood],
                        [Tool("Zoom", "", FALSE) EXCEPT !.source_type = "unverified"],
                        Tool("Notion", "", TRUE)>>),
      Company("Beta", <<[Tool("Slack", UGood, FALSE) EXCEPT !.http_status = 429,
                                                            !.final_url = UGood],
                        [Tool("Zoom", UBeta, TRUE) EXCEPT !.http_status = 200,
                                                          !.final_url = UBeta]>>)>>

ThrottledRetry ==
    <<Item("Acme", "Slack", UGood, UGood, 429, "http_429", 0),
      Item("Beta", "Slack", UGood, UGood, 429, "http_429", 0)>>

\* A retry queue handed to --retry-queue by hand: a listing page, and an item
\* without URL.
HandRetry ==
    <<Item("Acme", "Zoom", URoot, "", 429, "http_429", 0),
      Item("Beta", "Notion", "", "", NoStatus, "", 0)>>

\* A retry queue with two items for one (company, tool) pair, as a cleaning
\* run leaves it for a company that lists the tool twice with different URLs.
TwinRetry ==
    <<Item("Acme", "Slack", UGood, UGood, 429, "http_429", 0),
      Item("Acme", "Slack", UBeta, UBeta, 429, "http_429", 0)>>

\* A backup that lists one tool of a company twice, with different URLs.
TwinBackupData ==
    <<Company("Acme", <<Tool("Slack", UGood, TRUE), Tool("Slack", UBeta, TRUE)>>)>>

\* A dataset with a company record without a name and two records of one
\* name.
NamelessData ==
    <<Company("", <<Tool("Slack", UGood, TRUE)>>),
      Company("Acme", <<[Tool("Zoom", "", FALSE) EXCEPT !.source_type = "unverified"]>>),
      Company("Acme", <<[Tool("Slack", UGood, FALSE) EXCEPT !.http_status = 429,
                                                            !.final_url = UGood]>>)>>

\* A dataset that kept only what an earlier check had confirmed.
ValidOnlyData ==
    <<Company("Beta", <<[Tool("Zoom", UBeta, TRUE) EXCEPT !.http_status = 200,
                                                          !.final_url = UBeta]>>)>>

\* A dataset one verified entry short of the target.
NearTargetData ==
    <<Company("Beta", <<[Tool("Zoom", UBeta, TRUE) EXCEPT !.http_status = 200,
                                                          !.final_url = UBeta]>>),
      Company("Gamma", <<[Tool("Slack", UGood, TRUE) EXCEPT !.http_status = 200,
                                                            !.final_url = UGood]>>)>>

\* The backup research-enrich draws its candidates from.
EnrichBackupData ==
    <<Company("Acme", <<Tool("Slack", UGood, TRUE)>>),
      Company("Beta", <<Tool("Slack", UGood, TRUE), Tool("Zoom", UBeta, FALSE)>>)>>

\* Six companies with one unverified target tool each: a web_verify run saves
\* its progress after the fifth and has one more to go.
SixData ==
    <<Company("Acme", <<Tool("Slack", "", FALSE)>>),
      Company("Beta", <<Tool("Slack", "", FALSE)>>),
      Company("Gamma", <<Tool("Slack", "", FALSE)>>),
      Company("acme", <<Tool("Slack", "", FALSE)>>),
      Company("beta", <<Tool("Slack", "", FALSE)>>),
      Company("gamma", <<Tool("Slack", "", FALSE)>>)>>

\* A dataset whose second company was appended behind the first by a script
\* that does not sort (merge_kr_cases), with the listing page as evidence.
ListingData ==
    <<Company("Beta", <<Tool("Zoom", URoot, FALSE)>>),
      Company("Acme", <<Tool("Zoom", URoot, FALSE), Tool("Notion", UBlank, FALSE)>>)>>

\* ListingData as a cleaning run leaves it (both URLs rejected statically, no
\* request made), with the quarantine and the backup that run wrote when it
\* reached its backup step in clock second 1.
UnsortedData ==
    <<Company("Beta", <<[Tool("Zoom", "", FALSE) EXCEPT !.source_type = "unverified"]>>),
      Company("Acme", <<[Tool("Zoom", "", FALSE) EXCEPT !.source_type = "unverified"],
                        Tool("Notion", UBlank, FALSE)>>)>>

ListingQuarantine ==
    <<Item("Beta", "Zoom", URoot, "", NoStatus, "root_or_listing_page", 0),
      Item("Acme", "Zoom", URoot, "", NoStatus, "root_or_listing_page", 0)>>

ListingBackup == [p \in {BackupPath("companies.json.bak", 1)} |-> ListingData]

NoFiles == [p \in {} |-> <<>>]

OneBackup(content) == [p \in {BackupPath("companies.json.bak", 0)} |-> content]

Fixture(s, d, b, r, q) ==
    [script |-> s, dataFile |-> d, backupFiles |-> b, retryFile |-> r,
     quarantineFile |-> q]

Fixtures ==
    {Fixture("clean", ScrapedData, NoFiles, <<>>, <<>>),
     Fixture("clean", CleanedData, NoFiles, CleanedRetry, CleanedQuarantine),
     Fixture("retry", ThrottledData, OneBackup(ScrapedData), ThrottledRetry, <<>>),
     Fixture("retry", CleanedData, OneBackup(ScrapedData), HandRetry, CleanedQuarantine),
     Fixture("retry", CleanedData, OneBackup(ScrapedData), TwinRetry, <<>>),
     Fixture("enrich", ValidOnlyData, OneBackup(EnrichBackupData), <<>>, <<>>),
     Fixture("enrich", ValidOnlyData, OneBackup(TwinBackupData), <<>>, <<>>),
     Fixture("retry", NamelessData, NoFiles, CleanedRetry, <<>>),
     Fixture("enrich", NamelessData, OneBackup(ValidOnlyData), <<>>, <<>>),
     Fixture("fill", ThrottledData, OneBackup(ScrapedData), ThrottledRetry, <<>>),
     Fixture("fill", ScrapedData, OneBackup(ScrapedData), <<>>, <<>>),
     Fixture("enrich_db", CleanedData, NoFiles, CleanedRetry, CleanedQuarantine),
     Fixture("verify_v3", CleanedData, NoFiles, CleanedRetry, CleanedQuarantine),
     Fixture("web_verify", CleanedData, NoFiles, CleanedRetry, CleanedQuarantine),
     Fixture("web_verify", ValidOnlyData, NoFiles, <<>>, <<>>),
     Fixture("web_verify", SixData, NoFiles, <<>>, <<>>),
     Fixture("merge_kr", CleanedData, NoFiles, CleanedRetry, CleanedQuarantine),
     Fixture("merge_kr", ValidOnlyData, NoFiles, <<>>, <<>>),
     Fixture("clean", UnsortedData, ListingBackup, <<>>, ListingQuarantine),
     Fixture("enrich", NearTargetData, OneBackup(EnrichBackupData), <<>>, <<>>),
     Fixture("sitemap", ValidOnlyData, NoFiles, <<>>, <<>>)}

Init ==
    /\ \E fx \in Fixtures :
          /\ script = fx.script
          /\ dataFile = fx.dataFile
          /\ backupFiles = fx.backupFiles
          /\ retryFile = fx.retryFile
          /\ quarantineFile = fx.quarantineFile
          /\ outFiles = <<>>
          /\ startData = fx.dataFile
    /\ pc = "start"
    /\ now = 1
    /\ checked_at = 0
    /\ data = <<>>
    /\ tasks = <<>>
    /\ futures = <<>>
    /\ results = <<>>
    /\ quarantine = <<>>
    /\ retry_queue = <<>>
    /\ resolved = <<>>
    /\ netlog = {}
    /\ writes = <<>>
    /\ todo = <<>>
    /\ direct = <<>>
    /\ report = NoReport
    /\ crawl = NoCrawl

Next ==
    \/ CleanLoad
    \/ \E k \in DOMAIN futures : CleanWorker(k)
    \/ \E k \in DOMAIN futures : CleanCollect(k)
    \/ CleanMerge
    \/ CleanBackup
    \/ CleanWriteData
    \/ CleanWriteQuarantine
    \/ CleanWriteRetry
    \/ CleanWriteReport
    \/ RetryLoad
    \/ \E k \in DOMAIN futures : RetryInvalidItem(k)
    \/ \E k \in DOMAIN futures : RetryAttempt(k)
    \/ \E k \in DOMAIN futures : RetryCollect(k)
    \/ RetryMerge
    \/ RetryBackup
    \/ RetryWriteData
    \/ RetryWriteRetry
    \/ RetryWriteReport
    \/ EnrichLoad
    \/ \E k \in DOMAIN futures : EnrichWorker(k)
    \/ \E k \in DOMAIN futures : EnrichCollect(k)
    \/ EnrichPhase1
    \/ EnrichSearch
    \/ EnrichBackup
    \/ EnrichWriteData
    \/ EnrichWriteReport
    \/ FillAlreadyTarget
    \/ FillLoad
    \/ \E k \in DOMAIN futures : FillWorker(k)
    \/ \E k \in DOMAIN futures : FillCollect(k)
    \/ FillMerge
    \/ FillBackup
    \/ FillWriteData
    \/ FillWriteReport
    \/ EnrichDbLoad
    \/ EnrichDbTool
    \/ EnrichDbWrite
    \/ V3Load
    \/ V3Tool
    \/ V3Write
    \/ WebNothing
    \/ WebLoad
    \/ WebCompany
    \/ WebSave
    \/ KrMerge
    \/ SitemapLoad
    \/ \E k \in DOMAIN futures : SitemapWorker(k)
    \/ \E k \in DOMAIN futures : SitemapCollect(k)
    \/ SitemapWriteFlat
    \/ SitemapWriteDb
    \/ SitemapWriteReport

Spec == Init /\ [][Next]_vars

\* ------------------------------------------- the merges, applied twice over
\* The datasets, candidates and verified outcomes the two merges are tried on.
MergeDatasets == {<<>>, ValidOnlyData, CleanedData, ThrottledData, ScrapedData}

MergeCandidates ==
    {[c |-> c, t |-> Tool(t, u, FALSE), url |-> u] :
        c \in {"Acme", "Gamma", "acme"}, t \in {"Slack", "slack", "Zoom"},
        u \in {UGood, UBeta}}

VerifiedOutcomes(merge, url) ==
    {o \in (IF merge = "upsert" THEN Outcomes(http_check_once, url)
            ELSE Outcomes(check_url, url)) : o.ok}

\* The retry run's success upsert or add_verified_entry of the candidate in
\* todo with the outcome in results.
merge_candidate(m, today) ==
    LET cand == Head(todo)
        out == Head(results).value
    IN  IF script = "upsert"
        THEN retry_upsert(m, find_latest_full_backup(backupFiles), cand.c, cand.t.name,
                          cand.url, out, checked_at, today)
        ELSE add_verified_entry(m, cand.c, cand.t, out, cand.url, checked_at, today)

InitMerge ==
    /\ script \in {"upsert", "add_entry"}
    /\ pc = "start"
    /\ now = 1
    /\ checked_at = 1
    /\ dataFile \in MergeDatasets
    /\ startData = dataFile
    /\ backupFiles = OneBackup(ScrapedData)
    /\ retryFile = <<>>
    /\ quarantineFile = <<>>
    /\ outFiles = <<>>
    /\ data = <<>>
    /\ tasks = <<>>
    /\ futures = <<>>
    /\ \E cand \in MergeCandidates :
          /\ todo = <<cand>>
          /\ \E out \in VerifiedOutcomes(script, cand.url) :
                results = <<[key |-> cand.url, value |-> out]>>
    /\ quarantine = <<>>
    /\ retry_queue = <<>>
    /\ resolved = <<>>
    /\ netlog = {}
    /\ writes = <<>>
    /\ direct = <<>>
    /\ report = NoReport
    /\ crawl = NoCrawl

\* The candidate is merged into the loaded dataset.
MergeFirst ==
    /\ pc = "start"
    /\ \E t \in now..MaxClock :
          /\ now' = t
          /\ data' = merge_candidate(company_map(dataFile), t)
    /\ pc' = "once"
    /\ UNCHANGED <<crawl, loop, script, checked_at, disk, pool, quarantine, retry_queue, resolved,
                   audit,
                   report>>

\* The same candidate with the same outcome is merged into the result, which
\* is written to the dataset file.
MergeSecond ==
    /\ pc = "once"
    /\ \E t \in now..MaxClock :
          /\ now' = t
          /\ dataFile' = merge_candidate(data, t)
    /\ writes' = Append(writes, "data")
    /\ pc' = "twice"
    /\ UNCHANGED <<crawl, loop, script, checked_at, backupFiles, retryFile, quarantineFile, outFiles, pool,
                   mem, netlog, startData,
                   report>>

NextMerge == MergeFirst \/ MergeSecond

SpecMerge == InitMerge /\ [][NextMerge]_vars

\* ------------------------------------------- the structural classifiers
\* The structural classifiers of clean_urls and research_enrich_to_1000 as
\* pure functions: a list of up to MaxUrls URL strings is drawn, and one
\* classifier is applied to them one after the other.
MaxUrls == 2

ClassifyURLs == {"", UGood, URoot, UForum, UFtp, UJira, UTeams, UTeamsRoot, UMedium, UBare}

UrlLists == UNION {[1..n -> ClassifyURLs] : n \in 1..MaxUrls}

InitClassify ==
    /\ script \in {"static_reject_reason", "static_reject"}
    /\ pc = "start"
    /\ todo \in UrlLists
    /\ results = <<>>
    /\ now = 1
    /\ checked_at = 0
    /\ dataFile = <<>>
    /\ startData = <<>>
    /\ backupFiles = <<>>
    /\ retryFile = <<>>
    /\ quarantineFile = <<>>
    /\ outFiles = <<>>
    /\ data = <<>>
    /\ tasks = <<>>
    /\ futures = <<>>
    /\ quarantine = <<>>
    /\ retry_queue = <<>>
    /\ resolved = <<>>
    /\ netlog = {}
    /\ writes = <<>>
    /\ direct = <<>>
    /\ report = NoReport
    /\ crawl = NoCrawl

\* clean_urls.static_reject_reason applied to the next URL.
ClassifyClean ==
    /\ script = "static_reject_reason" /\ todo # <<>>
    /\ results' = Append(results, [key |-> Head(todo),
                                   value |-> static_reject_reason(Head(todo))])
    /\ todo' = Tail(todo)
    /\ pc' = IF Tail(todo) = <<>> THEN "done" ELSE "loop"
    /\ UNCHANGED <<crawl, script, now, checked_at, disk, data, tasks, futures, quarantine,
                   retry_queue, resolved, audit, direct,
                   report>>

\* research_enrich_to_1000.static_reject applied to the next URL.
ClassifyEnrich ==
    /\ script = "static_reject" /\ todo # <<>>
    /\ results' = Append(results, [key |-> Head(todo),
                                   value |-> static_reject(Head(todo))])
    /\ todo' = Tail(todo)
    /\ pc' = IF Tail(todo) = <<>> THEN "done" ELSE "loop"
    /\ UNCHANGED <<crawl, script, now, checked_at, disk, data, tasks, futures, quarantine,
                   retry_queue, resolved, audit, direct,
                   report>>

NextClassify == ClassifyClean \/ ClassifyEnrich

SpecClassify == InitClassify /\ [][NextClassify]_vars

\* ------------------------------------------------------ crawl_candidates
\* One call of crawl_candidates on a site of two sitemaps that may name each
\* other: what a sitemap holds is decided when it is fetched.
MaxSitemaps == 3

MaxCap == 2

MaxLocs == 2

SeqsUpTo(S, n) == UNION {[1..k -> S] : k \in 0..n}

\* parse_sitemap (lines 76-80): the page URLs and the sitemap URLs of one
\* document.
SitemapDocs == [urls : SeqsUpTo(Pages, MaxLocs), maps : SeqsUpTo(Sitemaps, MaxLocs)]

InitCrawl ==
    /\ script = "crawl_candidates"
    /\ pc = "loop"
    /\ \E m \in 1..MaxSitemaps, cap \in 1..MaxCap :
          crawl = NewCrawl([tool |-> "Slack", sitemap |-> SRoot, max_sitemaps |-> m], cap)
    /\ todo = <<>>
    /\ results = <<>>
    /\ now = 1
    /\ checked_at = 0
    /\ dataFile = <<>>
    /\ startData = <<>>
    /\ backupFiles = <<>>
    /\ retryFile = <<>>
    /\ quarantineFile = <<>>
    /\ outFiles = <<>>
    /\ data = <<>>
    /\ tasks = <<>>
    /\ futures = <<>>
    /\ quarantine = <<>>
    /\ retry_queue = <<>>
    /\ resolved = <<>>
    /\ netlog = {}
    /\ writes = <<>>
    /\ direct = <<>>
    /\ report = NoReport

\* Lines 91-93: the sitemap taken from the queue was fetched before.
CrawlSkip ==
    /\ script = "crawl_candidates" /\ pc = "loop" /\ crawl_goes_on(crawl)
    /\ Head(crawl.queue) \in crawl.seen_maps
    /\ crawl' = [crawl EXCEPT !.queue = Tail(@), !.popped = Append(@, Head(crawl.queue))]
    /\ UNCHANGED <<script, pc, now, checked_at, disk, pool, mem, audit, loop, report>>

\* Lines 91-99: fetch_xml or parse_sitemap raises.
CrawlFetchFails ==
    /\ script = "crawl_candidates" /\ pc = "loop" /\ crawl_goes_on(crawl)
    /\ Head(crawl.queue) \notin crawl.seen_maps
    /\ crawl' = [crawl EXCEPT !.queue = Tail(@),
                              !.popped = Append(@, Head(crawl.queue)),
                              !.seen_maps = @ \cup {Head(crawl.queue)},
                              !.fetched = Append(@, Head(crawl.queue))]
    /\ UNCHANGED <<script, pc, now, checked_at, disk, pool, mem, audit, loop, report>>

\* Lines 91-108: one sitemap fetched, its sitemaps queued, its URLs scanned.
CrawlFetch ==
    /\ script = "crawl_candidates" /\ pc = "loop" /\ crawl_goes_on(crawl)
    /\ Head(crawl.queue) \notin crawl.seen_maps
    /\ \E doc \in SitemapDocs :
          crawl' = crawl_urls([crawl EXCEPT !.queue = Tail(@) \o doc.maps,
                                           !.popped = Append(@, Head(crawl.queue)),
                                           !.seen_maps = @ \cup {Head(crawl.queue)},
                                           !.fetched = Append(@, Head(crawl.queue))],
                              doc.urls)
    /\ UNCHANGED <<script, pc, now, checked_at, disk, pool, mem, audit, loop, report>>

\* Lines 90, 109: the loop ends and out is returned.
CrawlReturn ==
    /\ script = "crawl_candidates" /\ pc = "loop" /\ ~crawl_goes_on(crawl)
    /\ pc' = "returned"
    /\ UNCHANGED <<crawl, script, now, checked_at, disk, pool, mem, audit, loop, report>>

NextCrawl == CrawlSkip \/ CrawlFetchFails \/ CrawlFetch \/ CrawlReturn

SpecCrawl == InitCrawl /\ [][NextCrawl]_vars

\* The interpreter goes on with the loop as long as it has a step to take.
SpecCrawlFair == SpecCrawl /\ WF_vars(NextCrawl)

\* ------------------------------------------------------------ properties
DatasetWritten == "data" \in Range(writes)

\* The tool entries the dataset held for a company when the run started.
StartTools(cname) ==
    UNION {Range(startData[i].tools) : i \in {i \in 1..Len(startData) :
                                                startData[i].company = cname}}

NoCaseDuplicate(d) ==
    \A c \in 1..Len(d) : \A i, j \in 1..Len(d[c].tools) :
       i # j => lower(d[c].tools[i].name) # lower(d[c].tools[j].name)

\* C1: in a run of clean_data, the retry run, research-enrich, fill_to_1000 or
\* enrich_db, every write of the dataset file comes after the write of a backup,
\* and a backup file holds the content the dataset file had when the run began.
C1_BackupBeforeFirstWrite ==
    script \in {"clean", "retry", "enrich", "fill", "enrich_db"} =>
        \A i \in 1..Len(writes) :
           writes[i] = "data" =>
               /\ \E j \in 1..(i - 1) : writes[j] = "backup"
               /\ \E p \in DOMAIN backupFiles : backupFiles[p] = startData

\* C2: when no company of the dataset the run started from has two tool names
\* equal ignoring case, none has in the dataset the merges of the retry run,
\* research-enrich, fill_to_1000 and the Korean-case merge build and write.
C2_NoCaseDuplicateAfterMerge ==
    (script \in {"retry", "enrich", "fill", "merge_kr"} /\ NoCaseDuplicate(startData)) =>
        NoCaseDuplicate(data) /\ NoCaseDuplicate(dataFile)

\* C3: in the dataset a run has written, a tool entry's non-empty final_url is
\* the final URL of a check that returned ok in this run, or the final_url the
\* same tool of the same company already had when the run began.
C3_FinalUrlOnlyFromVerified ==
    DatasetWritten =>
        \A c \in 1..Len(dataFile) : \A i \in 1..Len(dataFile[c].tools) :
           LET t == dataFile[c].tools[i]
           IN  t.final_url # "" =>
                   \/ <<t.final_url, "verified_final">> \in netlog
                   \/ \E s \in StartTools(dataFile[c].company) :
                         s.name = t.name /\ s.final_url = t.final_url

\* C4: a tool entry that is verified in the run's dataset, and that was not
\* a verified entry of that company when the run began, has a source URL for
\* which a check of this run ended on an HTTP status below 400.
C4_VerifiedOnlyFromHttpCheck ==
    \A c \in 1..Len(data) : \A i \in 1..Len(data[c].tools) :
       LET t == data[c].tools[i]
       IN  (t.verified /\ ~\E s \in StartTools(data[c].company) :
                              s.name = t.name /\ s.verified) =>
               <<t.source_url, "status<400">> \in netlog

\* C5: merging the same candidate with the same verified outcome a second
\* time, by the retry run's success upsert or by add_verified_entry, leaves the
\* companies and tool entries of the first merge as they are.
C5_MergeTwiceIsMergeOnce == pc = "twice" => dataFile = data

\* The upsert replaced an entry, or either merge added one, and was run again.
C5_Witness ==
    /\ pc = "twice"
    /\ data # company_map(startData)
    /\ script = "upsert"

\* The URLs a run handed to its verifier: the pool's tasks that carry a URL,
\* then the calls the script made itself.
Submitted ==
    SelectSeq([k \in 1..Len(tasks) |-> tasks[k].url], LAMBDA u : u # "") \o direct

\* C6: within one run no URL string is handed to the verifier twice.
C6_NoUrlSubmittedTwice ==
    \A i, j \in 1..Len(Submitted) : i # j => Submitted[i] # Submitted[j]

\* C7: in clean_data and fill_to_1000, once the pool has drained, every
\* submitted URL has exactly one outcome in the outcome map, whatever the
\* order in which the checks completed.
C7_OneOutcomePerSubmittedUrl ==
    (script \in {"clean", "fill"} /\ pc \notin {"start", "pool"}) =>
        /\ \A k \in 1..Len(tasks) :
              Cardinality({i \in 1..Len(results) : results[i].key = tasks[k].url}) = 1
        /\ \A i \in 1..Len(results) : \E k \in 1..Len(tasks) : results[i].key = tasks[k].url

\* A drained pool of two URLs whose second check was collected first.
C7_Witness ==
    /\ script \in {"clean", "fill"} /\ pc = "backup"
    /\ Len(tasks) = 2 /\ Len(results) = 2
    /\ results[1].key = tasks[2].url

ItemKey(it) == <<it.company, it.tool, it.source_url>>

\* The retry run spent the whole attempt budget on the item.
Exhausted(it) ==
    /\ script = "retry"
    /\ \E k \in 1..Len(tasks) : tasks[k].item = it /\ futures[k].calls >= Attempts

\* C8: when a run rewrites the retry queue, an item of the old queue is
\* missing from the new one only if a check of its URL returned ok in this run
\* or the run spent the item's attempt budget.
C8_RetryItemLeavesOnlyVerifiedOrExhausted ==
    [][retryFile' # retryFile =>
          \A i \in 1..Len(retryFile) :
             (~\E j \in 1..Len(retryFile') :
                   ItemKey(retryFile'[j]) = ItemKey(retryFile[i])) =>
                 \/ <<retryFile[i].source_url, "verified">> \in netlog
                 \/ Exhausted(retryFile[i])]_vars

\* C9: retry_check calls http_check_once at most Attempts times for an item,
\* has made exactly Attempts calls when it returns a failure, and makes no
\* call after one that returned ok.
C9_RetryCheckBounded ==
    /\ [](script = "retry" =>
             \A k \in 1..Len(futures) :
                /\ futures[k].calls <= Attempts
                /\ (/\ futures[k].st # "pending" /\ futures[k].out.valid
                    /\ ~futures[k].out.raised /\ ~futures[k].out.ok)
                       => futures[k].calls = Attempts)
    /\ [][script = "retry" =>
             \A k \in (DOMAIN futures) \cap (DOMAIN futures') :
                futures'[k].calls # futures[k].calls =>
                    /\ futures'[k].calls = futures[k].calls + 1
                    /\ ~(futures[k].calls > 0 /\ futures[k].out.ok)]_vars

\* One item verified before the budget was spent, another failed Attempts times.
C9_Witness ==
    /\ script = "retry"
    /\ \E k, j \in 1..Len(futures) :
          /\ futures[k].st = "done" /\ futures[k].out.ok /\ futures[k].calls < Attempts
          /\ futures[j].st = "done" /\ ~futures[j].out.ok /\ ~futures[j].out.raised
          /\ futures[j].out.valid /\ futures[j].calls = Attempts

\* C10: in the cleaning run, research-enrich and the retry run, no HEAD or GET
\* is sent for a URL that the script's structural classifier rejects.
C10_NoRequestForRejectedUrl ==
    \A e \in netlog :
       e[2] \in {"HEAD", "GET"} =>
           /\ script = "clean" => static_reject_reason(e[1]) = NoReason
           /\ script = "enrich" => static_reject(e[1]) = NoReason
           /\ script = "retry" => retry_static_reject_reason(e[1]) = NoReason

\* C11: every check that ended Verified has a final (post-redirect) URL that
\* passes the structural classification: no verified check ends on a root or
\* listing page, whether the HEAD or the GET answered.
C11_VerifiedFinalUrlIsClassified ==
    \A e \in netlog :
        e[2] = "verified_final" => ~MatchesRootPattern(urlparse(e[1]))

\* C12: an exception that leaves one URL check is turned into an outcome when
\* its future is handed over; it never ends the run, which goes on with the
\* other candidates and its writes.
C12_CheckerCrashIsAnOutcome ==
    \A k \in DOMAIN futures :
        futures[k].st = "collected" /\ futures[k].out.raised => pc # "crashed"

\* The run has written and printed its report; fill_to_1000 that found the
\* target already reached has printed its status instead.
Reported ==
    \/ "report" \in Range(writes)
    \/ script = "fill" /\ pc = "done"

\* C13: every run of a script that reports comes to its end with the report
\* written and printed: once the script has ended, normally or on an
\* exception, it has reported, no candidate verifying included.
C13_RunEndsWithReport ==
    script \in {"clean", "retry", "enrich", "fill", "sitemap"}
        /\ pc \in {"done", "crashed"}
        => Reported

\* The in-memory merge of the run is still under way: the pool has not been
\* merged yet, or the loop over the companies has companies left.
MergeUnfinished ==
    \/ pc \in {"start", "pool"}
    \/ pc = "loop" /\ todo # <<>>

\* C14: as long as the merge of a run of clean_data, the retry run or
\* web_verify is unfinished, the dataset file holds the content it had when
\* the run began, and whenever the dataset file was written a backup was
\* written before.
C14_DatasetWrittenAfterMergeAndBackup ==
    script \in {"clean", "retry", "web_verify"} =>
        /\ MergeUnfinished => dataFile = startData /\ ~DatasetWritten
        /\ \A i \in 1..Len(writes) :
              writes[i] = "data" => \E j \in 1..(i - 1) : writes[j] = "backup"

\* The (company, tool) pairs task k of the pool stands for: the references of
\* its URL in the dataset the cleaning run loaded, the pair of its retry item.
TaskPairs(k) ==
    IF script = "clean"
    THEN {<<startData[r.c].company, startData[r.c].tools[r.t].name>> :
             r \in Range(url_index(startData, tasks[k].url))}
    ELSE {<<tasks[k].item.company, tasks[k].item.tool>>}

\* The tool entries the dataset d holds for a (company, tool) pair.
EntriesOf(d, pair) ==
    {<<c, i>> \in {<<c, i>> \in (1..Len(d)) \X (1..3) : i <= Len(d[c].tools)} :
        d[c].company = pair[1] /\ d[c].tools[i].name = pair[2]}

\* The dataset file holds exactly one tool entry for each pair of task k, it
\* is verified, its final_url is the URL the check of k ended on and its
\* evidence_title is title.
OneVerifiedEntry(k, title) ==
    \A pair \in TaskPairs(k) :
        /\ Cardinality(EntriesOf(dataFile, pair)) = 1
        /\ \A e \in EntriesOf(dataFile, pair) :
              /\ dataFile[e[1]].tools[e[2]].verified
              /\ dataFile[e[1]].tools[e[2]].final_url = futures[k].out.final_url
              /\ dataFile[e[1]].tools[e[2]].evidence_title = title

\* The check of task k was for a URL that passes the classification, and no
\* other task that was verified stands for one of its (company, tool) pairs.
Classified(k) ==
    /\ static_reject_reason(tasks[k].url) = NoReason
    /\ \A j \in DOMAIN futures :
          (j # k /\ futures[j].out.ok) => TaskPairs(j) \cap TaskPairs(k) = {}

RejectedRefs ==
    {r \in Range(build_index(startData)) :
        \/ static_reject_reason(r.url) # NoReason
        \/ \E k \in DOMAIN futures :
              /\ tasks[k].url = r.url
              /\ ~futures[k].out.ok /\ ~futures[k].out.retryable}

\* The quarantine records of the file for one reference.
RecordsOf(r) ==
    {i \in 1..Len(quarantineFile) :
        /\ quarantineFile[i].company = startData[r.c].company
        /\ quarantineFile[i].tool = startData[r.c].tools[r.t].name
        /\ quarantineFile[i].source_url = r.url}

\* The entry of a rejected reference is kept under its name, unverified, of
\* source type "unverified", and has exactly one quarantine record.
Downgraded(r) ==
    /\ dataFile[r.c].tools[r.t].name = startData[r.c].tools[r.t].name
    /\ ~dataFile[r.c].tools[r.t].verified
    /\ dataFile[r.c].tools[r.t].source_type = "unverified"
    /\ dataFile[r.c].tools[r.t].source_url = ""
    /\ Cardinality(RecordsOf(r)) = 1

\* C16: when the cleaning run has ended, every reference whose URL was
\* rejected (statically, or by a check that ended Rejected or Error) has its
\* tool entry kept and downgraded, with source_url and final_url cleared, has
\* one quarantine record, and its rejected URL appears nowhere in the entry.
C16_RejectedEntryIsCleared ==
    (script = "clean" /\ pc = "done") =>
        \A r \in RejectedRefs :
            /\ Downgraded(r)
            /\ dataFile[r.c].tools[r.t].final_url = ""
            /\ r.url \notin {dataFile[r.c].tools[r.t].source_url,
                             dataFile[r.c].tools[r.t].final_url}

\* The retry item of task k was verified, and no other item of the queue for
\* the same (company, tool) pair was.
VerifiedAlone(k) ==
    /\ futures[k].out.ok
    /\ \A j \in DOMAIN futures :
          (j # k /\ futures[j].out.ok) =>
              <<tasks[j].item.company, tasks[j].item.tool>>
                  # <<tasks[k].item.company, tasks[k].item.tool>>

VerifiedResults(pair) ==
    {i \in 1..Len(results) :
        /\ results[i].value.ok
        /\ <<tasks[results[i].key].item.company, tasks[results[i].key].item.tool>> = pair}

\* The candidates of research-enrich, in the order of phase 1.
Candidates == enrich_candidates(EnrichSource, company_map(startData))

\* The positions of the candidates of research-enrich for the pair whose URL
\* was verified in phase 1.
VerifiedCandidates(pair) ==
    {i \in 1..Len(Candidates) :
        /\ <<Candidates[i].c, Candidates[i].t.name>> = pair
        /\ DictHas(results, strip(Candidates[i].t.source_url))
        /\ DictGet(results, strip(Candidates[i].t.source_url)).ok}

\* The final URL of the first of the verified candidates of the pair.
FirstVerifiedUrl(pair) ==
    IF script = "retry"
    THEN LET i == CHOOSE i \in VerifiedResults(pair) :
                     \A j \in VerifiedResults(pair) : i <= j
         IN  results[i].value.final_url
    ELSE LET i == CHOOSE i \in VerifiedCandidates(pair) :
                     \A j \in VerifiedCandidates(pair) : i <= j
         IN  DictGet(results, strip(Candidates[i].t.source_url)).final_url

\* The pairs for which two candidates were verified in this run.
TwiceVerified ==
    IF script = "retry"
    THEN {pair \in {<<tasks[k].item.company, tasks[k].item.tool>> : k \in DOMAIN tasks} :
             Cardinality(VerifiedResults(pair)) >= 2}
    ELSE {pair \in {<<Candidates[i].c, Candidates[i].t.name>> : i \in DOMAIN Candidates} :
             Cardinality(VerifiedCandidates(pair)) >= 2}

\* C18: when two candidates of one (company, tool) pair with different URLs
\* were both verified in a retry run or in phase 1 of research-enrich, the
\* dataset the run wrote holds exactly one tool entry for the pair, and it
\* carries the URL of the candidate that was merged first.
C18_FirstVerifiedCandidateWins ==
    (script \in {"retry", "enrich"} /\ pc = "done") =>
        \A pair \in TwiceVerified :
            /\ Cardinality(EntriesOf(dataFile, pair)) = 1
            /\ \A e \in EntriesOf(dataFile, pair) :
                  dataFile[e[1]].tools[e[2]].final_url = FirstVerifiedUrl(pair)

\* The number of company records of the dataset d that carry the name.
RecordsNamed(d, cname) == Cardinality({i \in 1..Len(d) : d[i].company = cname})

\* C19: the dataset a retry run or research-enrich wrote holds every company
\* record the dataset held when the run began, whatever its name: for every
\* name, the empty one included, at least as many records as before.
C19_EveryCompanyRecordKept ==
    (script \in {"retry", "enrich"} /\ DatasetWritten) =>
        \A i \in 1..Len(startData) :
            RecordsNamed(dataFile, startData[i].company)
                >= RecordsNamed(startData, startData[i].company)

\* C20: the quarantine is append-only: every record the quarantine file holds
\* is still in the file after any write of a later run.
C20_QuarantineAppendOnly ==
    [][\A i \in 1..Len(quarantineFile) : quarantineFile[i] \in Range(quarantineFile')]_vars

\* The collected results of the retry run, put in the order of submission.
InTaskOrder(res) ==
    [i \in 1..Len(res) |->
        res[CHOOSE j \in 1..Len(res) :
               Cardinality({l \in 1..Len(res) : res[l].key <= res[j].key}) = i]]

\* The dataset the retry run merges from the results res, taken in their order.
RetryMergeOf(res) ==
    sorted_by_company(
        FoldLeft(LAMBDA a, kv :
                     RetryMergeOne(a, kv, tasks, find_latest_full_backup(backupFiles),
                                   checked_at, now),
                 [data |-> company_map(dataFile), resolved |-> <<>>, remaining |-> <<>>],
                 res).data)

\* The outcome map of research-enrich, filled in the order of submission.
CacheInTaskOrder ==
    FoldLeft(LAMBDA d, k : DictPut(d, tasks[k].url, DictGet(results, tasks[k].url)),
             <<>>, [k \in 1..Len(tasks) |-> k])

\* The merge of the run has just ended: the retry run is about to write its
\* backup, research-enrich has finished phase 1 and checked no search hit yet.
JustMerged ==
    \/ script = "retry" /\ pc = "backup"
    \/ script = "enrich" /\ pc = "phase2" /\ direct = <<>>

\* The dataset the merge built is the one it builds from the same outcomes
\* taken in the order of submission.
SameAsInTaskOrder ==
    IF script = "retry"
    THEN data = RetryMergeOf(InTaskOrder(results))
    ELSE data = enrich_phase1(company_map(dataFile), Candidates, CacheInTaskOrder,
                              checked_at, now)

SomeCheckPending == \E k \in DOMAIN futures : futures[k].st = "pending"

\* C22: no outcome is merged while a submitted check of the run is still
\* pending: the cleaning and retry runs change the dataset, and the sitemap
\* build its list of verified items, only when every check has its outcome.
C22_NoMergeWhileCheckPending ==
    [][(\/ script \in {"clean", "retry"} /\ data' # data
        \/ script = "sitemap" /\ results' # results)
       => ~SomeCheckPending]_vars

\* C23: in the cleaning run and in research-enrich every URL check is issued
\* by a worker of the pool: the script itself, which merges, calls no verifier.
C23_EveryCheckIssuedByThePool ==
    script \in {"clean", "enrich"} => direct = <<>>

\* C24: a check of the cleaning run or of research-enrich that returned an
\* outcome after the HEAD request alone returned Verified: whenever HEAD did
\* not verify the URL, the GET request was issued before the outcome.
C24_GetIssuedUnlessHeadVerified ==
    script \in {"clean", "enrich"} =>
        \A k \in DOMAIN futures :
            (/\ futures[k].st # "pending"
             /\ ~futures[k].out.raised
             /\ futures[k].out.calls = <<"HEAD">>)
            => futures[k].out.ok

\* The checks of the pool that returned an outcome from a GET answer of
\* status 400 or more.
GetFailed ==
    {k \in DOMAIN futures :
        /\ futures[k].st # "pending" /\ ~futures[k].out.raised
        /\ Len(futures[k].out.calls) = 2
        /\ futures[k].out.status_code >= 400}

\* C25: when the GET request answers with a status of 400 or more, the
\* outcome carries the reason http_<status> whatever the final URL, and it is
\* Retryable exactly when the status is 403 or 429.
C25_GetFailureReasonIsHttpStatus ==
    script \in {"clean", "enrich"} =>
        \A k \in GetFailed :
            /\ futures[k].out.reason = http_reason(futures[k].out.status_code)
            /\ futures[k].out.retryable
                   = (futures[k].out.status_code \in RETRYABLE_STATUSES)

\* The references of the loaded dataset whose check ended Retryable.
RetryableRefs ==
    {r \in Range(build_index(startData)) :
        \E k \in DOMAIN futures :
            /\ tasks[k].url = r.url
            /\ ~futures[k].out.raised /\ futures[k].out.retryable}

\* C26: a Retryable outcome leaves the dataset unchanged: when the cleaning
\* run has ended, the tool entry of every reference whose check ended
\* Retryable is field for field the entry that was loaded.
C26_RetryableLeavesEntryUnchanged ==
    (script = "clean" /\ pc = "done") =>
        \A r \in RetryableRefs :
            dataFile[r.c].tools[r.t] = startData[r.c].tools[r.t]

\* The retry items of the file for one (company, tool, url) triple.
ItemsOf(item) ==
    {i \in 1..Len(retryFile) :
        /\ retryFile[i].company = item.company
        /\ retryFile[i].tool = item.tool
        /\ retryFile[i].source_url = item.source_url}

\* C27: the retry queue a run has written counts the transient failures of
\* each (company, tool, url) triple: one item per triple, with attempts = 1
\* after the cleaning run that saw the first failure and a larger count after
\* a retry run that saw the triple fail again.
C27_QueueItemCountsAttempts ==
    (script \in {"clean", "retry"} /\ pc = "done") =>
        \A i \in 1..Len(retryFile) :
            /\ "attempts" \in DOMAIN retryFile[i]
            /\ retryFile[i].attempts = (IF script = "clean" THEN 1 ELSE 2)
            /\ ItemsOf(retryFile[i]) = {i}

\* The references of the loaded dataset whose check ended in a transient
\* failure: not verified, with status 403 or 429.
TransientRefs ==
    {r \in Range(build_index(startData)) :
        \E k \in DOMAIN futures :
            /\ tasks[k].url = r.url
            /\ ~futures[k].out.raised /\ ~futures[k].out.ok
            /\ futures[k].out.status_code \in RETRYABLE_STATUSES}

\* The items of the written retry queue for one reference.
QueuedFor(r) ==
    {i \in 1..Len(retryFile) :
        /\ retryFile[i].company = startData[r.c].company
        /\ retryFile[i].tool = startData[r.c].tools[r.t].name
        /\ retryFile[i].source_url = r.url
        /\ retryFile[i].http_status \in RETRYABLE_STATUSES}

\* C28: when the cleaning run has ended, every reference whose check ended
\* in a transient failure (403 or 429) has an item in the retry queue the run
\* wrote and no record in the quarantine the run wrote.
C28_TransientGoesToRetryQueueOnly ==
    (script = "clean" /\ pc = "done") =>
        \A r \in TransientRefs : QueuedFor(r) # {} /\ RecordsOf(r) = {}

\* A cleaning run has ended with a reference whose check answered 429.
C28_Witness ==
    /\ script = "clean" /\ pc = "done"
    /\ \E r \in TransientRefs : QueuedFor(r) # {}

\* The outcome is a permanent failure: a status of 400 or more other than
\* 403 and 429, or no answer at all (network error).
PermanentFailure(out) ==
    /\ ~out.raised /\ out.valid /\ ~out.ok
    /\ out.status_code \notin RETRYABLE_STATUSES
    /\ out.status_code >= 400 \/ out.status_code = NoStatus

\* The references of the cleaning run whose check failed permanently.
PermanentRefs ==
    {r \in Range(build_index(startData)) :
        \E k \in DOMAIN futures :
            tasks[k].url = r.url /\ PermanentFailure(futures[k].out)}

\* The retry items whose check failed permanently in the retry run.
PermanentItems ==
    {k \in DOMAIN futures : PermanentFailure(futures[k].out)}

\* The quarantine file holds a record for the item.
Quarantined(item) ==
    \E i \in 1..Len(quarantineFile) :
        /\ quarantineFile[i].company = item.company
        /\ quarantineFile[i].tool = item.tool
        /\ quarantineFile[i].source_url = item.source_url

\* C29: when a cleaning run or a retry run has ended, every candidate whose
\* check failed permanently (status >= 400 other than 403/429, or a network
\* error) has a record in the quarantine file and no item in the retry queue.
C29_PermanentFailureIsQuarantined ==
    /\ (script = "clean" /\ pc = "done") =>
           \A r \in PermanentRefs :
               /\ RecordsOf(r) # {}
               /\ ItemsOf([company |-> startData[r.c].company,
                           tool |-> startData[r.c].tools[r.t].name,
                           source_url |-> r.url]) = {}
    /\ (script = "retry" /\ pc = "done") =>
           \A k \in PermanentItems :
               /\ Quarantined(tasks[k].item)
               /\ ItemsOf(tasks[k].item) = {}

\* The waits of a retry_check after n failed attempts that were not the last:
\* base_sleep * 2^i after attempt i, counted from 0.
BackoffSchedule(n) == [i \in 1..n |-> 2 ^ (i - 1)]

\* retry_check of item k has returned after every attempt failed.
AllAttemptsFailed(k) ==
    /\ futures[k].st # "pending" /\ futures[k].out.valid
    /\ ~futures[k].out.raised /\ ~futures[k].out.ok

HostnameBlocked(p) ==
    \/ \E i \in 1..(Len(p.hostname) - 1) :
          p.hostname[i] \in {"community", "support", "help", "forum"}
    \/ \E i \in 1..(Len(p.hostname) - 1) :
          /\ p.hostname[i] \in {"reddit", "quora", "medium", "linkedin"}
          /\ p.hostname[i + 1] = "com"
    \/ EndsWithSeq(p.hostname, <<"news", "ycombinator", "com">>)

\* The reason of the first matching rule, in the order of the rules: empty,
\* unparsable, scheme, bad host, blocked domain, root or listing page.
FirstMatchingRule(url) ==
    IF url = "" THEN "empty_url"
    ELSE IF urlparse(url).scheme = "" THEN "invalid_url_format"
    ELSE IF urlparse(url).scheme \notin {"http", "https"} THEN "invalid_scheme"
    ELSE IF MatchesBadHost(urlparse(url)) THEN "invalid_host_pattern"
    ELSE IF HostnameBlocked(urlparse(url)) THEN "blocked_domain"
    ELSE IF MatchesRootPattern(urlparse(url)) THEN "root_or_listing_page"
    ELSE NoReason

\* C31: the structural classifier returns the reason of the first matching
\* rule in the order empty_url, invalid_url_format, invalid_scheme,
\* invalid_host_pattern, blocked_domain, root_or_listing_page, and accepts
\* the URL when no rule matches.
C31_FirstMatchingRuleWins ==
    \A i \in 1..Len(results) : results[i].value = FirstMatchingRule(results[i].key)

\* C32: a URL is rejected as blocked_domain only when its hostname matches
\* the blocked-domain list.
C32_BlockedDomainOnlyByHostname ==
    \A i \in 1..Len(results) :
        results[i].value = "blocked_domain" => HostnameBlocked(urlparse(results[i].key))

\* No two company records of the dataset have names equal ignoring case.
CompaniesUniqueIgnoringCase(d) ==
    \A i, j \in 1..Len(d) : i # j => lower(d[i].company) # lower(d[j].company)

\* C33: when the company names of the loaded dataset are unique ignoring
\* case, so are those of the dataset the retry run's upsert or
\* add_verified_entry builds and of the dataset file written from it: a
\* verified outcome for a name that differs only in letter case from an
\* existing company adds no second company record.
C33_CompanyNamesUniqueIgnoringCase ==
    (pc # "start" /\ CompaniesUniqueIgnoringCase(startData)) =>
        /\ CompaniesUniqueIgnoringCase(data)
        /\ pc = "twice" => CompaniesUniqueIgnoringCase(dataFile)

\* The company records are in ascending order of company name.
OrderedByCompany(d) ==
    \A i, j \in 1..Len(d) : i < j => NameRank(d[i].company) <= NameRank(d[j].company)

\* C34: the dataset file written by a run lists the company records in
\* ascending order of company name.
C34_DatasetFileOrderedByCompany ==
    DatasetWritten => OrderedByCompany(dataFile)

\* Every backup file is there after the step, with the content it had.
BackupsKept ==
    \A p \in DOMAIN backupFiles :
        p \in DOMAIN backupFiles' /\ backupFiles[p] = backupFiles'[p]

\* C35: a backup file of the data directory, once written, keeps its content:
\* no step of a cleaning or retry run overwrites the backup an earlier run
\* left, also when both reach the backup step within the same clock second.
C35_BackupNeverOverwritten ==
    [][(script \in {"clean", "retry"}) => BackupsKept]_vars

\* The report file of the cleaning run.
CleaningReport == DictGet(outFiles, "data/url_cleaning_report.json")

\* The entries counted by the report of the cleaning run.
EntriesCounted ==
    CleaningReport.cleaned_entries + CleaningReport.quarantined_entries
        + CleaningReport.retry_entries

\* The tool entries of the loaded dataset, as (company index, tool index).
StartEntries ==
    UNION {{<<c, i>> : i \in 1..Len(startData[c].tools)} : c \in 1..Len(startData)}

\* quarantined_entries and retry_entries are the numbers of quarantine
\* records and of retry items the run wrote.
CountersMatchFiles ==
    /\ CleaningReport.quarantined_entries = Len(quarantineFile)
    /\ CleaningReport.retry_entries = Len(retryFile)

\* C36 as stated: in the report of a cleaning run, cleaned_entries +
\* quarantined_entries + retry_entries is the number of tool entries of the
\* input dataset whose source_url is not the empty string, and the counters
\* match the quarantine records and retry items written.
C36_ReportCountsEveryEntryWithUrl ==
    (script = "clean" /\ pc = "done") =>
        /\ EntriesCounted =
              Cardinality({e \in StartEntries :
                              startData[e[1]].tools[e[2]].source_url # ""})
        /\ CountersMatchFiles

\* C36 amended: the sum is the number of tool entries whose source_url is
\* not empty after stripping white space.
C36_ReportCountsEveryEntryWithStrippedUrl ==
    (script = "clean" /\ pc = "done") =>
        /\ EntriesCounted =
              Cardinality({e \in StartEntries :
                              strip(startData[e[1]].tools[e[2]].source_url) # ""})
        /\ CountersMatchFiles

\* A cleaning run has ended that counted a cleaned, a quarantined and a
\* retry entry.
C36_Witness ==
    /\ script = "clean" /\ pc = "done"
    /\ CleaningReport.cleaned_entries > 0
    /\ CleaningReport.quarantined_entries > 0
    /\ CleaningReport.retry_entries > 0

\* The files a retry run writes at its end.
ResolvedFile == DictGet(outFiles, "data/retry_queue_resolved.json")
RetryReport == DictGet(outFiles, "data/retry_run_report.json")

\* The records of a list for the (company, tool, url) of an input item.
RecordsFor(list, item) ==
    {i \in 1..Len(list) :
        /\ list[i].company = item.company
        /\ list[i].tool = item.tool
        /\ list[i].source_url = item.source_url}

\* run_item found that item k lacks a company, a tool or a URL.
InvalidItem(k) == futures[k].st # "pending" /\ ~futures[k].out.valid

\* Every item of the input queue is in the resolved list or in the remaining
\* queue and not in both, and an item without company, tool or URL is in the
\* remaining queue with the reason invalid_retry_item and caused no request.
ItemsSettled ==
    /\ \A k \in DOMAIN tasks :
          (RecordsFor(resolved, tasks[k].item) # {})
              # (RecordsFor(retry_queue, tasks[k].item) # {})
    /\ Len(resolved) + Len(retry_queue) = Len(tasks)
    /\ \A k \in DOMAIN tasks :
          InvalidItem(k) =>
              /\ \E i \in RecordsFor(retry_queue, tasks[k].item) :
                    retry_queue[i].reason = "invalid_retry_item"
              /\ futures[k].calls = 0 /\ futures[k].out.calls = <<>>

\* The report and the two files are the lists of the run.
ReportMatchesLists ==
    /\ ResolvedFile = resolved /\ retryFile = retry_queue
    /\ RetryReport.input_retry_items = Len(tasks)
    /\ RetryReport.resolved_items = Len(resolved)
    /\ RetryReport.remaining_items = Len(retry_queue)

\* A retry run that wrote its report settled every item.
SettledAtReport ==
    (script = "retry" /\ pc = "done") => ItemsSettled /\ ReportMatchesLists

\* C37: when a retry run has ended, every item of the input queue is in
\* the resolved list or in the remaining queue and not in both, the report's
\* resolved_items + remaining_items equals input_retry_items, and an item
\* without company, tool or URL is in the remaining queue with the reason
\* invalid_retry_item and caused no request.
C37_EveryItemResolvedOrRemaining ==
    (script = "retry" /\ pc \in {"done", "crashed"}) =>
        ItemsSettled /\ ReportMatchesLists

\* Dataset d has the companies and the tool entries of the loaded dataset, in
\* the same places.
SameEntries(d) ==
    /\ Len(d) = Len(startData)
    /\ \A c \in 1..Len(startData) :
          /\ d[c].company = startData[c].company
          /\ Len(d[c].tools) = Len(startData[c].tools)
          /\ \A i \in 1..Len(startData[c].tools) :
                d[c].tools[i].name = startData[c].tools[i].name

\* The tool entries loaded without a URL.
BlankEntries ==
    {e \in StartEntries : strip(startData[e[1]].tools[e[2]].source_url) = ""}

\* Every entry loaded without a URL is in d as it was loaded.
BlankUntouched(d) ==
    \A e \in BlankEntries : d[e[1]].tools[e[2]] = startData[e[1]].tools[e[2]]

\* C38: a cleaning run adds and removes no company and no tool entry, and a
\* tool entry whose source_url is empty after stripping stays as it was
\* loaded, the verified flag included, in memory and in the written file.
C38_CleaningKeepsEntriesAndBlankOnes ==
    (script = "clean" /\ pc # "start") =>
        /\ SameEntries(data) /\ BlankUntouched(data)
        /\ SameEntries(dataFile) /\ BlankUntouched(dataFile)

\* A cleaning run has written a dataset that differs from the loaded one, and
\* the loaded one had a verified entry without a URL.
C38_Witness ==
    /\ script = "clean" /\ pc = "done"
    /\ \E e \in BlankEntries : startData[e[1]].tools[e[2]].verified
    /\ dataFile # startData

\* The larger of two numbers.
Larger(a, b) == IF a >= b THEN a ELSE b

\* Dataset d has no more verified entries than the target, or than the
\* dataset had when the run started.
WithinTarget(d) == total_verified(d) <= Larger(Target, total_verified(startData))

\* C39: in research-enrich and fill_to_1000 the dataset, in memory and in
\* the file, never has more verified entries than max(target, the number of
\* verified entries at the start of the run).
C39_NoVerifiedEntryBeyondTarget ==
    (script \in {"enrich", "fill"} /\ pc # "start") =>
        WithinTarget(data) /\ WithinTarget(dataFile)

\* Research-enrich has written a dataset that reached the target by its
\* additions, with a confirmed candidate left over.
C39_Witness ==
    /\ script = "enrich" /\ pc = "done"
    /\ total_verified(startData) < Target
    /\ total_verified(dataFile) = Target
    /\ \E p \in Range(enrich_candidates(EnrichSource, startData)) :
          /\ ~has_pair(dataFile, p.c, p.t.name)
          /\ DictHas(results, strip(p.t.source_url))
          /\ DictGet(results, strip(p.t.source_url)).ok

\* No element occurs twice in sequence s.
NoRepeat(s) == \A i, j \in 1..Len(s) : s[i] = s[j] => i = j

\* What crawl_candidates has fetched and collected is within its limits.
CrawlWithinLimits ==
    /\ NoRepeat(crawl.fetched)
    /\ Len(crawl.fetched) <= crawl.source.max_sitemaps
    /\ Len(crawl.out) <= crawl.cap
    /\ NoRepeat([i \in 1..Len(crawl.out) |-> crawl.out[i].url])

\* C40: crawl_candidates fetches no sitemap URL twice and at most
\* max_sitemaps sitemaps, holds at most cap URLs and none of them twice, and
\* returns, also when sitemaps name each other.
C40_CrawlBoundedAndTerminates ==
    /\ [](script = "crawl_candidates" => CrawlWithinLimits)
    /\ (script = "crawl_candidates" => <>(pc = "returned"))

\* The crawl has returned because its queue ran empty, after it fetched both
\* sitemaps and took the root sitemap from the queue again.
C40_Witness ==
    /\ script = "crawl_candidates" /\ pc = "returned"
    /\ crawl.queue = <<>>
    /\ crawl.fetched = <<SRoot, SChild>>
    /\ Cardinality({i \in 1..Len(crawl.popped) : crawl.popped[i] = SRoot}) > 1
    /\ crawl.out # <<>>

====
